---- MODULE Spec2Model ----
(***************************************************************************)
(* Verification model of airseeker's update-necessity engine               *)
(* (update-conditions), the numeric helpers of utils.ts and the staggered  *)
(* update-feed scheduler.                                                  *)
(*                                                                         *)
(* The pure functions are operators, applied by actions to inputs that the *)
(* initial state draws from bounded sets.  Each part of the program has    *)
(* its own specification (SpecUpdatable, SpecMedian, SpecDecode,           *)
(* SpecLoops); the variables of the other parts stay at their idle value.  *)
(***************************************************************************)
EXTENDS Integers, Sequences, FiniteSets, TLC

VARIABLES
    \* ---- isDataFeedUpdatable: the seven arguments, the clock, the outcome
    args,        \* record of the seven arguments of isDataFeedUpdatable
    dateNow,     \* Date.now(), in milliseconds
    updatable,   \* outcome of the last call: NoCall or [ret, log]
    \* ---- calculateDeviationPercentage
    devArgs,     \* record of the three arguments
    deviation,   \* outcome of the call: NoCall or [status |-> "ok", value]
    \* ---- calculateMedian
    arr,         \* the argument array
    median,      \* outcome of the call: NoCall, [status |-> "throw"] or [status |-> "ok", value]
    \* ---- decodeBeaconValue
    encodedBeaconValue,  \* the ABI-encoded int256 word, 32 bytes, most significant first
    decoded,             \* outcome of the call: NoCall, Null or a signed big integer
    \* ---- startUpdateFeedLoops
    chains,      \* config.chains, per chain: [dataFeedUpdateIntervalMs, providers]
    clock,       \* wall-clock time of the scheduler, in milliseconds
    loopsPc,     \* position of startUpdateFeedLoops: "idle", "awaiting", "done"
    chainTask,   \* per chain: position of the async callback of the map
    intervals,   \* the setInterval registrations made so far, in call order
    \* ---- runUpdateFeed: one provider's timer and the cycle of its first tick
    updateFeedChain,  \* the chain argument: [dataFeedBatchSize, dataFeedUpdateIntervalMs]
    registryCount,    \* the number of active dAPIs in the DapiDataRegistry
    feedTimer,        \* the provider's setInterval timer: [registered, remaining, ticks, overlapping]
    cycle,            \* the runUpdateFeed call made by the first tick
    \* signed-api-fetch: runDataFetcher, stopDataFetcher
    fetcherState,     \* process state: dataFetcherInterval, signedApiUrlStore, active beacons
    fetcherTimers,    \* the repeating timers registered with setInterval(runDataFetcher, ...)
    signedDataStore,  \* the data-point store
    fetcherCalls,     \* how many times runDataFetcher was called, directly and by the timer
    fetchTick,        \* the runDataFetcher invocation that is followed
    fetcherStopped,   \* what stopDataFetcher found when it was called
    \* ---- update-feeds utilities: mergeUrls, updateDynamicState
    mergeArgs,        \* the arguments of mergeUrls: [existingUrls, freshUrls]
    mergedUrls,       \* outcome of the call: NoCall or [status |-> "ok", value]
    dynamicState,     \* process state: config, dapis, signedApiStore, signedApiUrlStore, gasPriceStore
    dynamicCall       \* the last updateDynamicState call: NoCall or [status, before, batch, chainId, now]

updVars == <<args, dateNow, updatable>>
devVars == <<devArgs, deviation>>
medVars == <<arr, median>>
decVars == <<encodedBeaconValue, decoded>>
loopVars == <<chains, clock, loopsPc, chainTask, intervals>>
feedVars == <<updateFeedChain, registryCount, feedTimer, cycle>>
fetchVars ==
    <<fetcherState, fetcherTimers, signedDataStore, fetcherCalls, fetchTick, fetcherStopped>>
utilVars == <<mergeArgs, mergedUrls, dynamicState, dynamicCall>>
vars == <<updVars, devVars, medVars, decVars, loopVars, feedVars, fetchVars, utilVars>>

\* The value of an outcome variable before the operation has been called.
NoCall == [status |-> "none"]

---------------------------------------------------------------------------
(***************************************************************************)
(* Bounds of the model.                                                    *)
(***************************************************************************)
\* Feed values (on-chain, off-chain, deviation reference, array elements)
\* range over -MaxVal..MaxVal.
MaxVal == 2
\* Timestamps and the clock (in seconds) range over 0..MaxTs.
MaxTs == 2
\* Batches given to updateDynamicState have at most MaxBatchItems entries.
MaxBatchItems == 2
\* Heartbeat intervals range over 0..MaxHeartbeat seconds.
MaxHeartbeat == 2
\* Arrays given to calculateMedian have at most MaxLen elements.
MaxLen == 4
\* The clock of isDataFeedUpdatable advances in steps of TickMs milliseconds,
\* so that it also stands between two whole seconds.
TickMs == 500
\* A chain has at most MaxProviders providers.
MaxProviders == 2
\* A chain's update interval is 1..MaxIntervalMs milliseconds.
MaxIntervalMs == 3
\* The scheduler clock runs from 0 to MaxTime milliseconds.
MaxTime == 5
\* The dataFeedUpdateInterval of the chain whose cycle is followed is
\* 1..MaxFeedIntervalMs milliseconds.
MaxFeedIntervalMs == 2
\* A chain's dataFeedBatchSize is 1..MaxBatchSize.
MaxBatchSize == 2
\* The registry holds 0..MaxDapis active dAPIs.
MaxDapis == 3
\* A provider's timer is followed for MaxTicks ticks.
MaxTicks == 2
\* runDataFetcher is invoked at most MaxFetchTicks times.
MaxFetchTicks == 2
\* An argument of mergeUrls has at most MaxUrlEntries entries.
MaxUrlEntries == 2
\* lastReceivedMs is 1..MaxReceivedMs.
MaxReceivedMs == 2

Values == (-MaxVal)..MaxVal
Timestamps == 0..MaxTs

---------------------------------------------------------------------------
(***************************************************************************)
(* constants.ts                                                            *)
(***************************************************************************)
HUNDRED_PERCENT == 100000000

\* 2^256 - 1 in the program.  TLC's integers are 32 bits wide, so the model
\* uses the largest integer TLC represents: like 2^256 - 1 against the
\* int224 feed values, it is above every scaled quotient the bounded values
\* produce (at most 2 * (MaxVal + 1) * HUNDRED_PERCENT) and is the largest
\* threshold a uint256 policy can hold.
UINT256_MAX == 2147483647

\* The deviation thresholds the inputs are drawn from: zero, the smallest
\* non-zero one, values on and next to the quotients of the bounded feed
\* values, and the largest uint256.
Thresholds ==
    {0, 1, 33333333, 33333334, HUNDRED_PERCENT \div 2, HUNDRED_PERCENT,
     2 * HUNDRED_PERCENT, UINT256_MAX}

---------------------------------------------------------------------------
(***************************************************************************)
(* utils.ts                                                                *)
(***************************************************************************)
\* abs without the negation of negative numbers.
abs_NoNegation(n) == n

abs(n) == IF n < 0 THEN -n ELSE n

\* bigint division truncates toward zero; \div rounds toward minus infinity.
BigIntDiv(a, b) ==
    IF (a < 0) = (b < 0) THEN abs(a) \div abs(b) ELSE -(abs(a) \div abs(b))

\* ---- big integers ---------------------------------------------------------
\* The beacon values are 256-bit quantities, wider than TLC's integers.  A
\* magnitude is a sequence of WordBytes bytes, most significant first; a big
\* integer is a sign and a magnitude, zero being non-negative.
WordBytes == 32

Bytes == 0..255

MagZero == [i \in 1..WordBytes |-> 0]

\* 2^k for k in 0..7.
PowerOfTwo(k) == CASE k = 0 -> 1 [] k = 1 -> 2 [] k = 2 -> 4 [] k = 3 -> 8
                   [] k = 4 -> 16 [] k = 5 -> 32 [] k = 6 -> 64 [] k = 7 -> 128

\* BigInt(2).pow(BigInt(k)), k < 8 * WordBytes.
MagPow2(k) ==
    [i \in 1..WordBytes |-> IF i = WordBytes - (k \div 8) THEN PowerOfTwo(k % 8) ELSE 0]

\* m - 1 for a magnitude m > 0: the zero bytes at the end borrow.
MagSubOne(m) ==
    LET last == CHOOSE i \in 1..WordBytes :
                    m[i] # 0 /\ \A j \in (i + 1)..WordBytes : m[j] = 0
    IN  [i \in 1..WordBytes |->
            IF i < last THEN m[i] ELSE IF i = last THEN m[i] - 1 ELSE 255]

\* m + 1 modulo 2^(8 * WordBytes): the 255 bytes at the end carry.
MagAddOne(m) ==
    IF \A i \in 1..WordBytes : m[i] = 255 THEN MagZero
    ELSE LET last == CHOOSE i \in 1..WordBytes :
                         m[i] # 255 /\ \A j \in (i + 1)..WordBytes : m[j] = 255
         IN  [i \in 1..WordBytes |->
                 IF i < last THEN m[i] ELSE IF i = last THEN m[i] + 1 ELSE 0]

MagInvert(m) == [i \in 1..WordBytes |-> 255 - m[i]]

MagLess(a, b) ==
    \E i \in 1..WordBytes : a[i] < b[i] /\ \A j \in 1..(i - 1) : a[j] = b[j]

Big(neg, mag) == [status |-> "value", neg |-> neg /\ mag # MagZero, mag |-> mag]

\* x * -1
BigNegate(x) == Big(~x.neg, x.mag)

\* x < y
BigLess(x, y) ==
    IF x.neg # y.neg THEN x.neg
    ELSE IF x.neg THEN MagLess(y.mag, x.mag)
    ELSE MagLess(x.mag, y.mag)

\* x > y
BigGreater(x, y) == BigLess(y, x)

\* Solidity type(int224).min
INT224_MIN == BigNegate(Big(FALSE, MagPow2(223)))

\* Solidity type(int224).max
INT224_MAX == Big(FALSE, MagSubOne(MagPow2(223)))

\* ethers.AbiCoder.defaultAbiCoder().decode(['int256'], word)[0]: the word
\* read as a two's complement number.
AbiDecodeInt256(word) ==
    IF word[1] >= 128 THEN Big(TRUE, MagAddOne(MagInvert(word)))
    ELSE Big(FALSE, word)

Null == [status |-> "null"]

\* decodeBeaconValue that also rejects the two bounds.
decodeBeaconValue_ExclusiveBounds(encoded) ==
    LET decodedBeaconValue == AbiDecodeInt256(encoded)
    IN  IF \/ ~BigLess(decodedBeaconValue, INT224_MAX)
           \/ ~BigGreater(decodedBeaconValue, INT224_MIN)
        THEN Null
        ELSE decodedBeaconValue

decodeBeaconValue(encoded) ==
    LET decodedBeaconValue == AbiDecodeInt256(encoded)
    IN  IF \/ BigGreater(decodedBeaconValue, INT224_MAX)
           \/ BigLess(decodedBeaconValue, INT224_MIN)
        THEN Null
        ELSE decodedBeaconValue

---------------------------------------------------------------------------
(***************************************************************************)
(* update-conditions                                                       *)
(***************************************************************************)
\* calculateDeviationPercentage that reports no deviation, instead of the
\* maximal one, when the reference equals the initial value.
calculateDeviationPercentage_ZeroOnZeroDenominator(initialValue, updatedValue, deviationReference) ==
    LET absoluteDelta == abs(updatedValue - initialValue)
        absoluteInitialValue == abs(deviationReference - initialValue)
    IN  IF absoluteDelta = 0 THEN 0
        ELSE IF absoluteInitialValue = 0 THEN 0
        ELSE BigIntDiv(absoluteDelta * HUNDRED_PERCENT, absoluteInitialValue)

calculateDeviationPercentage(initialValue, updatedValue, deviationReference) ==
    LET absoluteDelta == abs(updatedValue - initialValue)
        absoluteInitialValue == abs(deviationReference - initialValue)
    IN  IF absoluteDelta = 0 THEN 0
        ELSE IF absoluteInitialValue = 0 THEN UINT256_MAX
        ELSE BigIntDiv(absoluteDelta * HUNDRED_PERCENT, absoluteInitialValue)

\* isDeviationThresholdExceeded with a strict comparison.
isDeviationThresholdExceeded_Strict(onChainValue, deviationThreshold, apiValue, deviationReference) ==
    calculateDeviationPercentage(onChainValue, apiValue, deviationReference) > deviationThreshold

isDeviationThresholdExceeded(onChainValue, deviationThreshold, apiValue, deviationReference) ==
    LET updateInPercentage ==
            calculateDeviationPercentage(onChainValue, apiValue, deviationReference)
    IN  updateInPercentage >= deviationThreshold

\* Math.floor(Date.now() / 1000)
NowSeconds(nowMs) == nowMs \div 1000

\* isOnChainDataFresh that still counts data exactly one heartbeat old as fresh.
isOnChainDataFresh_Inclusive(timestamp, heartbeatInterval, nowMs) ==
    timestamp >= NowSeconds(nowMs) - heartbeatInterval

isOnChainDataFresh(timestamp, heartbeatInterval, nowMs) ==
    timestamp > NowSeconds(nowMs) - heartbeatInterval

\* The outcome of a call: the returned boolean and the message logged.
Outcome(ret, log) == [status |-> "returned", ret |-> ret, log |-> log]

\* isDataFeedUpdatable that rejects only strictly older off-chain data.
isDataFeedUpdatable_StaleStrict(onChainValue, onChainTimestamp, offChainValue, offChainTimestamp, heartbeatInterval, deviationThreshold, deviationReference, nowMs) ==
    IF offChainTimestamp < onChainTimestamp
    THEN Outcome(FALSE, "warn: off-chain timestamp older")
    ELSE IF onChainTimestamp = 0 THEN Outcome(TRUE, "")
    ELSE IF isOnChainDataFresh(onChainTimestamp, heartbeatInterval, nowMs)
    THEN IF deviationThreshold = 0 THEN Outcome(FALSE, "info: deviation threshold is zero")
         ELSE IF isDeviationThresholdExceeded(onChainValue, deviationThreshold,
                                              offChainValue, deviationReference)
         THEN Outcome(TRUE, "info: deviation exceeded")
         ELSE Outcome(FALSE, "")
    ELSE IF heartbeatInterval = 0 THEN Outcome(FALSE, "info: heartbeat interval is zero")
         ELSE Outcome(TRUE, "info: on-chain timestamp older than heartbeat")

\* isDataFeedUpdatable without the early return for an uninitialized
\* on-chain timestamp.
isDataFeedUpdatable_NoUninitializedRule(onChainValue, onChainTimestamp, offChainValue, offChainTimestamp, heartbeatInterval, deviationThreshold, deviationReference, nowMs) ==
    IF offChainTimestamp <= onChainTimestamp
    THEN Outcome(FALSE, IF offChainTimestamp < onChainTimestamp
                        THEN "warn: off-chain timestamp older" ELSE "")
    ELSE IF isOnChainDataFresh(onChainTimestamp, heartbeatInterval, nowMs)
    THEN IF deviationThreshold = 0 THEN Outcome(FALSE, "info: deviation threshold is zero")
         ELSE IF isDeviationThresholdExceeded(onChainValue, deviationThreshold,
                                              offChainValue, deviationReference)
         THEN Outcome(TRUE, "info: deviation exceeded")
         ELSE Outcome(FALSE, "")
    ELSE IF heartbeatInterval = 0 THEN Outcome(FALSE, "info: heartbeat interval is zero")
         ELSE Outcome(TRUE, "info: on-chain timestamp older than heartbeat")

\* isDataFeedUpdatable in which on-chain data older than the heartbeat is
\* not updated.
isDataFeedUpdatable_NoHeartbeatUpdate(onChainValue, onChainTimestamp, offChainValue, offChainTimestamp, heartbeatInterval, deviationThreshold, deviationReference, nowMs) ==
    IF offChainTimestamp <= onChainTimestamp
    THEN Outcome(FALSE, IF offChainTimestamp < onChainTimestamp
                        THEN "warn: off-chain timestamp older" ELSE "")
    ELSE IF onChainTimestamp = 0 THEN Outcome(TRUE, "")
    ELSE IF isOnChainDataFresh(onChainTimestamp, heartbeatInterval, nowMs)
    THEN IF deviationThreshold = 0 THEN Outcome(FALSE, "info: deviation threshold is zero")
         ELSE IF isDeviationThresholdExceeded(onChainValue, deviationThreshold,
                                              offChainValue, deviationReference)
         THEN Outcome(TRUE, "info: deviation exceeded")
         ELSE Outcome(FALSE, "")
    ELSE Outcome(FALSE, "info: heartbeat interval is zero")

isDataFeedUpdatable(onChainValue, onChainTimestamp, offChainValue, offChainTimestamp, heartbeatInterval, deviationThreshold, deviationReference, nowMs) ==
    IF offChainTimestamp <= onChainTimestamp
    THEN Outcome(FALSE, IF offChainTimestamp < onChainTimestamp
                        THEN "warn: off-chain timestamp older" ELSE "")
    ELSE IF onChainTimestamp = 0 THEN Outcome(TRUE, "")
    ELSE IF isOnChainDataFresh(onChainTimestamp, heartbeatInterval, nowMs)
    THEN IF deviationThreshold = 0 THEN Outcome(FALSE, "info: deviation threshold is zero")
         ELSE IF isDeviationThresholdExceeded(onChainValue, deviationThreshold,
                                              offChainValue, deviationReference)
         THEN Outcome(TRUE, "info: deviation exceeded")
         ELSE Outcome(FALSE, "")
    ELSE IF heartbeatInterval = 0 THEN Outcome(FALSE, "info: heartbeat interval is zero")
         ELSE Outcome(TRUE, "info: on-chain timestamp older than heartbeat")

\* ---- calculateMedian ----------------------------------------------------
\* The comparator of the sort: negative, zero or positive.
Compare(a, b) == IF a < b THEN -1 ELSE IF a > b THEN 1 ELSE 0

RECURSIVE Insert(_, _)
\* Insert x into the ascending sequence s, after the elements equal to it
\* (Array.prototype.sort is stable).
Insert(s, x) ==
    IF s = <<>> THEN <<x>>
    ELSE IF Compare(x, Head(s)) < 0 THEN <<x>> \o s
    ELSE <<Head(s)>> \o Insert(Tail(s), x)

RECURSIVE SortAscending(_)
\* [...arr].sort(comparator)
SortAscending(s) ==
    IF s = <<>> THEN <<>>
    ELSE Insert(SortAscending(SubSeq(s, 1, Len(s) - 1)), s[Len(s)])

\* calculateMedian whose even-length mean rounds toward minus infinity.
calculateMedian_FloorMean(a) ==
    IF Len(a) = 0 THEN [status |-> "throw"]
    ELSE LET mid == Len(a) \div 2
             nums == SortAscending(a)
         IN  [status |-> "ok",
              value |-> IF Len(a) % 2 = 0
                        THEN (nums[mid] + nums[mid + 1]) \div 2
                        ELSE nums[mid + 1]]

\* calculateMedian whose guard also rejects arrays of one element.
calculateMedian_RejectsSingleton(a) ==
    IF Len(a) <= 1 THEN [status |-> "throw"]
    ELSE LET mid == Len(a) \div 2
             nums == SortAscending(a)
         IN  [status |-> "ok",
              value |-> IF Len(a) % 2 = 0
                        THEN BigIntDiv(nums[mid] + nums[mid + 1], 2)
                        ELSE nums[mid + 1]]

calculateMedian(a) ==
    IF Len(a) = 0 THEN [status |-> "throw"]
    ELSE LET mid == Len(a) \div 2        \* Math.floor(arr.length / 2), 0-based
             nums == SortAscending(a)
         IN  [status |-> "ok",
              value |-> IF Len(a) % 2 = 0
                        THEN BigIntDiv(nums[mid] + nums[mid + 1], 2)
                        ELSE nums[mid + 1]]

---------------------------------------------------------------------------
(***************************************************************************)
(* The idle values of each part's variables.                               *)
(***************************************************************************)
UpdIdle == args = <<>> /\ dateNow = 0 /\ updatable = NoCall
DevIdle == devArgs = <<>> /\ deviation = NoCall
MedIdle == arr = <<>> /\ median = NoCall
DecIdle == encodedBeaconValue = <<>> /\ decoded = NoCall
LoopIdle ==
    /\ chains = <<>>
    /\ clock = 0
    /\ loopsPc = "idle"
    /\ chainTask = <<>>
    /\ intervals = <<>>
FeedIdle ==
    /\ updateFeedChain = <<>>
    /\ registryCount = 0
    /\ feedTimer = <<>>
    /\ cycle = <<>>

FetchIdle ==
    /\ fetcherState = <<>>
    /\ fetcherTimers = <<>>
    /\ signedDataStore = {}
    /\ fetcherCalls = <<>>
    /\ fetchTick = <<>>
    /\ fetcherStopped = <<>>

UtilIdle ==
    /\ mergeArgs = <<>>
    /\ mergedUrls = <<>>
    /\ dynamicState = <<>>
    /\ dynamicCall = <<>>

---------------------------------------------------------------------------
(***************************************************************************)
(* SpecUpdatable: isDataFeedUpdatable on every bounded input, at every     *)
(* bounded time.                                                           *)
(***************************************************************************)
UpdArgs ==
    [onChainValue : Values, onChainTimestamp : Timestamps,
     offChainValue : Values, offChainTimestamp : Timestamps,
     heartbeatInterval : 0..MaxHeartbeat, deviationThreshold : Thresholds,
     deviationReference : Values]

UpdInit ==
    /\ args \in UpdArgs
    /\ dateNow = 0
    /\ updatable = NoCall

\* A caller evaluates isDataFeedUpdatable on the arguments at the current time.
CallIsDataFeedUpdatable ==
    /\ updatable = NoCall
    /\ updatable' = isDataFeedUpdatable(args.onChainValue, args.onChainTimestamp,
                        args.offChainValue, args.offChainTimestamp,
                        args.heartbeatInterval, args.deviationThreshold,
                        args.deviationReference, dateNow)
    /\ UNCHANGED <<args, dateNow>>

\* Time passes; the outcome of an earlier call is dropped.
AdvanceDateNow ==
    /\ dateNow + TickMs <= MaxTs * 1000 + TickMs
    /\ dateNow' = dateNow + TickMs
    /\ updatable' = NoCall
    /\ UNCHANGED args

InitUpdatable == UpdInit /\ DevIdle /\ MedIdle /\ DecIdle /\ LoopIdle /\ FeedIdle /\ FetchIdle /\ UtilIdle

NextUpdatable ==
    \/ CallIsDataFeedUpdatable /\ UNCHANGED <<devVars, medVars, decVars, loopVars, feedVars, fetchVars, utilVars>>
    \/ AdvanceDateNow /\ UNCHANGED <<devVars, medVars, decVars, loopVars, feedVars, fetchVars, utilVars>>

SpecUpdatable == InitUpdatable /\ [][NextUpdatable]_vars

---------------------------------------------------------------------------
(***************************************************************************)
(* Properties of isDataFeedUpdatable (SpecUpdatable).                      *)
(***************************************************************************)
Returned == updatable.status = "returned"

\* The clock reading of the call, in whole seconds, written out from the
\* current time.
NowS == dateNow \div 1000

\* The off-chain data is newer than initialized on-chain data.
NewerThanInitialized ==
    /\ args.offChainTimestamp > args.onChainTimestamp
    /\ args.onChainTimestamp > 0

\* The on-chain data is younger than one heartbeat.
FreshOnChain == args.onChainTimestamp > NowS - args.heartbeatInterval

\* C1: whenever the off-chain timestamp is not greater than the on-chain
\* timestamp the call returns false, whatever the other inputs and the
\* time; so a true result implies a strictly newer off-chain timestamp.
C1_StaleNeverUpdatable ==
    Returned =>
        /\ (args.offChainTimestamp <= args.onChainTimestamp => updatable.ret = FALSE)
        /\ (updatable.ret = TRUE => args.offChainTimestamp > args.onChainTimestamp)

\* A call with equal, non-zero timestamps on data that is older than a
\* non-zero heartbeat (so that only the timestamp rule rejects it).
C1_Witness ==
    /\ Returned
    /\ args.offChainTimestamp = args.onChainTimestamp
    /\ args.onChainTimestamp > 0
    /\ args.heartbeatInterval > 0
    /\ ~FreshOnChain
    /\ updatable.ret = FALSE

\* C2 as stated: with onChainTimestamp = 0 the call returns true for every
\* value of the other inputs.
C2_UninitializedAlwaysUpdatable ==
    (Returned /\ args.onChainTimestamp = 0) => updatable.ret = TRUE

\* C2, amended: with onChainTimestamp = 0 and an off-chain timestamp greater
\* than zero the call returns true, for every value of the other inputs and
\* of the time; with an off-chain timestamp of zero it returns false.
C2_UninitializedUpdatableIfNewer ==
    (Returned /\ args.onChainTimestamp = 0) =>
        (updatable.ret = (args.offChainTimestamp > 0))

\* A call on an uninitialized slot that neither the deviation rule (zero
\* threshold) nor the heartbeat rule (zero heartbeat) would have accepted.
C2_Witness ==
    /\ Returned
    /\ args.onChainTimestamp = 0
    /\ args.offChainTimestamp > 0
    /\ args.deviationThreshold = 0
    /\ args.heartbeatInterval = 0
    /\ updatable.ret = TRUE

\* C3: with newer off-chain data, an initialized and fresh on-chain value,
\* the call returns true exactly if the threshold is not zero and the
\* deviation percentage reaches the threshold.
C3_FreshIffDeviationExceeded ==
    (Returned /\ NewerThanInitialized /\ FreshOnChain) =>
        (updatable.ret =
            (/\ args.deviationThreshold # 0
             /\ calculateDeviationPercentage(args.onChainValue, args.offChainValue,
                    args.deviationReference) >= args.deviationThreshold))

\* A fresh call whose deviation percentage equals a non-zero threshold.
C3_Witness ==
    /\ Returned /\ NewerThanInitialized /\ FreshOnChain
    /\ args.deviationThreshold # 0
    /\ calculateDeviationPercentage(args.onChainValue, args.offChainValue,
           args.deviationReference) = args.deviationThreshold
    /\ updatable.ret = TRUE

\* C4: with newer off-chain data and an initialized on-chain value that is
\* not fresh (onChainTimestamp <= now - heartbeatInterval), the call returns
\* true exactly if the heartbeat interval is not zero, whatever the values,
\* the threshold and the reference.
C4_StaleIffHeartbeatNonZero ==
    (Returned /\ NewerThanInitialized
        /\ args.onChainTimestamp <= NowS - args.heartbeatInterval) =>
        (updatable.ret = (args.heartbeatInterval # 0))

\* A call on data exactly one non-zero heartbeat old, with a zero threshold
\* and no deviation.
C4_Witness ==
    /\ Returned /\ NewerThanInitialized
    /\ args.heartbeatInterval # 0
    /\ args.onChainTimestamp = NowS - args.heartbeatInterval
    /\ args.deviationThreshold = 0
    /\ args.offChainValue = args.onChainValue
    /\ updatable.ret = TRUE

\* C5: when the deviation reference equals the on-chain value, in the fresh
\* branch with a non-zero threshold (any threshold up to the largest
\* uint256), the call returns true exactly if the off-chain value differs
\* from the on-chain value.
C5_ZeroDenominatorIsMaximal ==
    (Returned /\ NewerThanInitialized /\ FreshOnChain
        /\ args.deviationThreshold # 0
        /\ args.deviationReference = args.onChainValue) =>
        (updatable.ret = (args.offChainValue # args.onChainValue))

\* A fresh call with a zero denominator, a changed value and the largest
\* threshold.
C5_Witness ==
    /\ Returned /\ NewerThanInitialized /\ FreshOnChain
    /\ args.deviationThreshold = UINT256_MAX
    /\ args.deviationReference = args.onChainValue
    /\ args.offChainValue # args.onChainValue
    /\ updatable.ret = TRUE

---------------------------------------------------------------------------
(***************************************************************************)
(* SpecDeviation: calculateDeviationPercentage on every bounded input.     *)
(***************************************************************************)
DevInit ==
    /\ devArgs \in [initialValue : Values, updatedValue : Values,
                    deviationReference : Values]
    /\ deviation = NoCall

CallCalculateDeviationPercentage ==
    /\ deviation = NoCall
    /\ deviation' = [status |-> "ok",
                     value |-> calculateDeviationPercentage(devArgs.initialValue,
                                   devArgs.updatedValue, devArgs.deviationReference)]
    /\ UNCHANGED devArgs

InitDeviation == UpdIdle /\ DevInit /\ MedIdle /\ DecIdle /\ LoopIdle /\ FeedIdle /\ FetchIdle /\ UtilIdle

NextDeviation ==
    CallCalculateDeviationPercentage /\ UNCHANGED <<updVars, medVars, decVars, loopVars, feedVars, fetchVars, utilVars>>

SpecDeviation == InitDeviation /\ [][NextDeviation]_vars

\* The distance of two integers, without abs.
Distance(a, b) == IF a >= b THEN a - b ELSE b - a

\* C6: the percentage is 0 when the updated value equals the initial one
\* (for every reference); otherwise, when the reference differs from the
\* initial value, it is the quotient of |updated - initial| * 10^8 by
\* |ref - initial| rounded down; it is never negative.
C6_DeviationPercentage ==
    deviation.status = "ok" =>
        LET n == Distance(devArgs.updatedValue, devArgs.initialValue)
            d == Distance(devArgs.deviationReference, devArgs.initialValue)
            q == deviation.value
        IN  /\ q >= 0
            /\ (n = 0 => q = 0)
            /\ (n # 0 /\ d # 0 =>
                    /\ q * d <= n * HUNDRED_PERCENT
                    /\ n * HUNDRED_PERCENT < (q + 1) * d)

\* A call with updated below initial, reference below initial, and a
\* quotient that does not divide evenly.
C6_Witness ==
    /\ deviation.status = "ok"
    /\ devArgs.updatedValue < devArgs.initialValue
    /\ devArgs.deviationReference < devArgs.initialValue
    /\ deviation.value * Distance(devArgs.deviationReference, devArgs.initialValue)
          < Distance(devArgs.updatedValue, devArgs.initialValue) * HUNDRED_PERCENT

---------------------------------------------------------------------------
(***************************************************************************)
(* SpecMedian: calculateMedian on every array of at most MaxLen values.    *)
(***************************************************************************)
MedInit ==
    /\ arr \in UNION {[1..n -> Values] : n \in 0..MaxLen}
    /\ median = NoCall

CallCalculateMedian ==
    /\ median = NoCall
    /\ median' = calculateMedian(arr)
    /\ UNCHANGED arr

InitMedian == UpdIdle /\ DevIdle /\ MedInit /\ DecIdle /\ LoopIdle /\ FeedIdle /\ FetchIdle /\ UtilIdle

NextMedian ==
    CallCalculateMedian /\ UNCHANGED <<updVars, devVars, decVars, loopVars, feedVars, fetchVars, utilVars>>

SpecMedian == InitMedian /\ [][NextMedian]_vars

\* C7: calculateMedian fails with an error on the empty array and returns a
\* value on every non-empty array.
C7_MedianThrowsOnlyOnEmpty ==
    median # NoCall =>
        /\ (arr = <<>> => median.status = "throw")
        /\ (arr # <<>> => median.status = "ok" /\ median.value \in Int)

\* The call on the empty array has thrown.
C7_Witness == arr = <<>> /\ median.status = "throw"

\* The k-th smallest element of a (k in 1..Len(a)), by counting: fewer than
\* k elements are below it and at least k are not above it.
KthSmallest(a, k) ==
    CHOOSE x \in {a[i] : i \in DOMAIN a} :
        /\ Cardinality({i \in DOMAIN a : a[i] < x}) < k
        /\ Cardinality({i \in DOMAIN a : a[i] <= x}) >= k

\* Half of s, rounded toward zero.
HalfTowardZero(s) ==
    CHOOSE h \in (-(2 * MaxVal + 2))..(2 * MaxVal + 2) :
        \/ 2 * h = s
        \/ s > 0 /\ 2 * h = s - 1
        \/ s < 0 /\ 2 * h = s + 1

\* The array a with the elements at i and j exchanged.
Exchanged(a, i, j) == [a EXCEPT ![i] = a[j], ![j] = a[i]]

\* C8: for a non-empty array the result is the middle element in ascending
\* order when the length is odd; when it is even, the sum of the two middle
\* elements halved and truncated toward zero; exchanging two elements of
\* the input does not change the result.
C8_MedianValue ==
    (median # NoCall /\ arr # <<>>) =>
        LET n == Len(arr)
        IN  /\ median.status = "ok"
            /\ (n % 2 = 1 => median.value = KthSmallest(arr, (n + 1) \div 2))
            /\ (n % 2 = 0 =>
                    median.value = HalfTowardZero(KthSmallest(arr, n \div 2)
                                        + KthSmallest(arr, n \div 2 + 1)))
            /\ \A i, j \in DOMAIN arr :
                    calculateMedian(Exchanged(arr, i, j)) = median

\* The median of the unsorted array <<-1, -2>> is -1 (not -2).
C8_Witness == arr = <<-1, -2>> /\ median.status = "ok" /\ median.value = -1

---------------------------------------------------------------------------
(***************************************************************************)
(* SpecDecode: decodeBeaconValue on 32-byte words on and around the int224 *)
(* bounds and the int256 bounds.                                           *)
(***************************************************************************)
\* The word with first byte b1, bytes 2..4 equal to high, fifth byte b5,
\* bytes 6..31 equal to low and last byte b32.  Bit 223 is the top bit of
\* the fifth byte.
Word(b1, high, b5, low, b32) ==
    [i \in 1..WordBytes |->
        IF i = 1 THEN b1 ELSE IF i <= 4 THEN high ELSE IF i = 5 THEN b5
        ELSE IF i < WordBytes THEN low ELSE b32]

EncodedWords ==
    {Word(b1, high, b5, low, b32) :
        b1 \in {0, 127, 128, 255}, high \in {0, 255}, b5 \in {0, 127, 128, 255},
        low \in {0, 255}, b32 \in {0, 1, 254, 255}}

DecInit ==
    /\ encodedBeaconValue \in EncodedWords
    /\ decoded = NoCall

CallDecodeBeaconValue ==
    /\ decoded = NoCall
    /\ decoded' = decodeBeaconValue(encodedBeaconValue)
    /\ UNCHANGED encodedBeaconValue

InitDecode == UpdIdle /\ DevIdle /\ MedIdle /\ DecInit /\ LoopIdle /\ FeedIdle /\ FetchIdle /\ UtilIdle

NextDecode ==
    CallDecodeBeaconValue /\ UNCHANGED <<updVars, devVars, medVars, loopVars, feedVars, fetchVars, utilVars>>

SpecDecode == InitDecode /\ [][NextDecode]_vars

\* The encodings of 2^223 - 1 and of -2^223, written out.
MaxWord == [i \in 1..32 |-> IF i <= 4 THEN 0 ELSE IF i = 5 THEN 127 ELSE 255]
MinWord == [i \in 1..32 |-> IF i <= 4 THEN 255 ELSE IF i = 5 THEN 128 ELSE 0]

\* A 256-bit two's complement word holds a number of -2^223 .. 2^223 - 1
\* exactly if its bits 223..255 are all equal.
FitsInt224(word) ==
    \/ (\A i \in 1..4 : word[i] = 0) /\ word[5] < 128
    \/ (\A i \in 1..4 : word[i] = 255) /\ word[5] >= 128

RECURSIVE SumCarry(_, _, _)
\* The carry out of byte i when the magnitudes a and b are added.
SumCarry(a, b, i) ==
    IF i > 32 THEN 0 ELSE (a[i] + b[i] + SumCarry(a, b, i + 1)) \div 256

\* a + b modulo 2^256.
SumMod(a, b) == [i \in 1..32 |-> (a[i] + b[i] + SumCarry(a, b, i + 1)) % 256]

\* The big integer x is the number the two's complement word holds.
Denotes(word, x) ==
    IF x.neg THEN x.mag # MagZero /\ SumMod(word, x.mag) = MagZero /\ word[1] >= 128
    ELSE x.mag = word /\ word[1] < 128

\* C9: decodeBeaconValue returns null exactly when the decoded int256 is
\* above 2^223 - 1 or below -2^223, and otherwise the decoded integer
\* itself; the two bounds are accepted.
C9_DecodeRange ==
    decoded # NoCall =>
        /\ (decoded = Null <=> ~FitsInt224(encodedBeaconValue))
        /\ (decoded # Null => Denotes(encodedBeaconValue, decoded))
        /\ (encodedBeaconValue \in {MaxWord, MinWord} => decoded # Null)

\* The call on the encoding of -2^223 has returned -2^223.
C9_Witness ==
    /\ encodedBeaconValue = MinWord
    /\ decoded.status = "value"
    /\ decoded.neg
    /\ decoded.mag = [i \in 1..32 |-> IF i = 5 THEN 128 ELSE 0]

---------------------------------------------------------------------------
(***************************************************************************)
(* update-feeds: startUpdateFeedLoops.                                     *)
(*                                                                         *)
(* Time is in milliseconds.  A chain's configuration holds its update      *)
(* interval in milliseconds (dataFeedUpdateInterval * 1000) and its        *)
(* providers, named by their position in Object.keys(providers).  Each     *)
(* synchronous stretch of the function (up to the next await) is one       *)
(* action; the clock advances between actions, by any amount, so that a    *)
(* sleeping task may resume later than its timer asks.                     *)
(***************************************************************************)
\* The chain ids of the configuration, in the order of Object.entries(chains).
ChainIds == <<"123", "456">>

ChainIndexes == 1..Len(ChainIds)

ChainConfigs ==
    [dataFeedUpdateIntervalMs : 1..MaxIntervalMs,
     providers : {[k \in 1..n |-> k] : n \in 0..MaxProviders}]

\* size(providers)
size(providers) == Len(providers)

\* staggerTime = (dataFeedUpdateInterval / size(providers)) * 1000, kept as
\* the fraction num / den of milliseconds (den > 0 wherever it is slept).
staggerTime(chain) ==
    [num |-> chain.dataFeedUpdateIntervalMs, den |-> size(chain.providers)]

\* sleep(ms) that resolves at once (the sleep is not awaited).
SleepResolved_NotAwaited(start, ms, now) == TRUE

\* sleep(ms) of a task that started sleeping at time start resolves once ms
\* milliseconds have passed: the timer never fires early, and a fractional
\* delay is waited for in full.
SleepResolved(start, ms, now) == (now - start) * ms.den >= ms.num

\* A timer whose period is the stagger time of the chain, rounded down.
Registration_StaggerPeriod(c, providerName, now) ==
    [chainId |-> ChainIds[c], providerName |-> providerName,
     periodMs |-> chains[c].dataFeedUpdateIntervalMs \div size(chains[c].providers), at |-> now]

\* setInterval(callback, dataFeedUpdateInterval * 1000), called at time now.
Registration(c, providerName, now) ==
    [chainId |-> ChainIds[c], providerName |-> providerName,
     periodMs |-> chains[c].dataFeedUpdateIntervalMs, at |-> now]

LoopInit ==
    /\ chains \in [ChainIndexes -> ChainConfigs]
    /\ clock = 0
    /\ loopsPc = "idle"
    /\ chainTask = [c \in ChainIndexes |-> [pc |-> "notStarted", next |-> 1, sleepStart |-> 0]]
    /\ intervals = <<>>

\* Only the first chain that has a provider: the chains one after the other.
ChainsWithProviders_FirstOnly(c) ==
    IF \A k \in c..Len(ChainIds) : size(chains[k].providers) = 0 THEN <<>>
    ELSE <<CHOOSE k \in c..Len(ChainIds) :
                /\ size(chains[k].providers) > 0
                /\ \A h \in c..(k - 1) : size(chains[h].providers) = 0>>

\* The chains that have a provider, in configuration order.
RECURSIVE ChainsWithProviders(_)
ChainsWithProviders(c) ==
    IF c > Len(ChainIds) THEN <<>>
    ELSE (IF size(chains[c].providers) > 0 THEN <<c>> ELSE <<>>) \o ChainsWithProviders(c + 1)

\* startUpdateFeedLoops is called: the callback of every chain runs up to
\* its first await, chain after chain: it registers the timer of the first
\* provider and starts to sleep; with no provider it ends at once.
StartUpdateFeedLoops ==
    /\ loopsPc = "idle"
    /\ LET started == ChainsWithProviders(1)
       IN  /\ intervals' = intervals \o
                 [k \in 1..Len(started) |->
                     Registration(started[k], chains[started[k]].providers[1], clock)]
           /\ chainTask' = [c \in ChainIndexes |->
                 IF size(chains[c].providers) > 0
                 THEN [pc |-> "sleeping", next |-> 2, sleepStart |-> clock]
                 ELSE [pc |-> "done", next |-> 1, sleepStart |-> 0]]
    /\ loopsPc' = "awaiting"
    /\ UNCHANGED <<chains, clock>>

\* The sleep of chain c's callback has resolved: the loop goes on to the
\* next provider, registers its timer and sleeps again; after the last
\* provider the callback ends.
ResumeChainLoop(c) ==
    /\ loopsPc = "awaiting"
    /\ chainTask[c].pc = "sleeping"
    /\ SleepResolved(chainTask[c].sleepStart, staggerTime(chains[c]), clock)
    /\ IF chainTask[c].next <= size(chains[c].providers)
       THEN /\ intervals' = Append(intervals,
                  Registration(c, chains[c].providers[chainTask[c].next], clock))
            /\ chainTask' = [chainTask EXCEPT
                  ![c] = [pc |-> "sleeping", next |-> @.next + 1, sleepStart |-> clock]]
       ELSE /\ chainTask' = [chainTask EXCEPT ![c] = [@ EXCEPT !.pc = "done"]]
            /\ UNCHANGED intervals
    /\ UNCHANGED <<chains, clock, loopsPc>>

\* Promise.all resolves once the callback of every chain has ended.
FinishUpdateFeedLoops ==
    /\ loopsPc = "awaiting"
    /\ \A c \in ChainIndexes : chainTask[c].pc = "done"
    /\ loopsPc' = "done"
    /\ UNCHANGED <<chains, clock, chainTask, intervals>>

\* A millisecond passes.
AdvanceClock ==
    /\ clock < MaxTime
    /\ clock' = clock + 1
    /\ UNCHANGED <<chains, loopsPc, chainTask, intervals>>

InitLoops == UpdIdle /\ DevIdle /\ MedIdle /\ DecIdle /\ LoopInit /\ FeedIdle /\ FetchIdle /\ UtilIdle

NextLoops ==
    \/ StartUpdateFeedLoops /\ UNCHANGED <<updVars, devVars, medVars, decVars, feedVars, fetchVars, utilVars>>
    \/ \E c \in ChainIndexes :
          ResumeChainLoop(c) /\ UNCHANGED <<updVars, devVars, medVars, decVars, feedVars, fetchVars, utilVars>>
    \/ FinishUpdateFeedLoops /\ UNCHANGED <<updVars, devVars, medVars, decVars, feedVars, fetchVars, utilVars>>
    \/ AdvanceClock /\ UNCHANGED <<updVars, devVars, medVars, decVars, feedVars, fetchVars, utilVars>>

SpecLoops == InitLoops /\ [][NextLoops]_vars

\* The chain index of a chain id.
ChainOf(id) == CHOOSE c \in ChainIndexes : ChainIds[c] = id

\* C10: the timers of a chain are registered in the order its providers are
\* configured, and the timers of two consecutive providers of a chain with
\* P providers and interval I are registered at least I / P apart (with a
\* timer that never fires early).
C10_ProviderTimersStaggered ==
    \A i, j \in DOMAIN intervals :
        (i < j /\ intervals[i].chainId = intervals[j].chainId) =>
            LET chain == chains[ChainOf(intervals[i].chainId)]
            IN  /\ intervals[i].providerName < intervals[j].providerName
                /\ \A k \in 1..(intervals[j].providerName - 1) :
                      \E h \in 1..(j - 1) :
                          /\ intervals[h].chainId = intervals[j].chainId
                          /\ intervals[h].providerName = k
                /\ (intervals[j].providerName = intervals[i].providerName + 1 =>
                      (intervals[j].at - intervals[i].at) * Len(chain.providers)
                          >= chain.dataFeedUpdateIntervalMs)

\* startUpdateFeedLoops has completed for a chain of two providers whose
\* interval of 3 ms does not divide evenly (the stagger is 1.5 ms): the
\* second timer was registered 2 ms after the first.
C10_Witness ==
    /\ loopsPc = "done"
    /\ Len(chains[1].providers) = 2
    /\ chains[1].dataFeedUpdateIntervalMs = 3
    /\ \E i, j \in DOMAIN intervals :
          /\ intervals[i].chainId = ChainIds[1] /\ intervals[i].providerName = 1
          /\ intervals[j].chainId = ChainIds[1] /\ intervals[j].providerName = 2
          /\ intervals[j].at - intervals[i].at = 2

---------------------------------------------------------------------------
(***************************************************************************)
(* update-feeds: runUpdateFeed.                                            *)
(*                                                                         *)
(* One provider's repeating timer and the runUpdateFeed call of its first  *)
(* tick.  A call keeps all it knows in local variables, so the calls of    *)
(* later ticks are only counted.  Each stretch of the function between two *)
(* awaits is one action.  Time is kept by a stopwatch started with the     *)
(* cycle (it stops counting at ElapsedCap, above every duration compared   *)
(* with it) and by the time left of every pending sleep; a resumption may  *)
(* come later than its timer asks, never earlier.                          *)
(***************************************************************************)
FeedChains ==
    [dataFeedBatchSize : 1..MaxBatchSize, dataFeedUpdateIntervalMs : 1..MaxFeedIntervalMs]

ElapsedCap == MaxFeedIntervalMs + 1

Min(a, b) == IF a <= b THEN a ELSE b
Max(a, b) == IF a >= b THEN a ELSE b

\* Math.ceil(a / b) for a >= 0 and b > 0.
CeilDiv(a, b) == (a + b - 1) \div b

\* batchesCount = totalCount / dataFeedBatchSize, a fraction.
batchesCount(totalCount, chain) == [num |-> totalCount, den |-> chain.dataFeedBatchSize]

\* range that leaves out a last, partial step (a length rounded down).
range_LengthRoundedDown(start, end) ==
    LET diff == end.num - start * end.den
    IN  [i \in 1..(IF diff > 0 THEN diff \div end.den ELSE 0) |-> start + (i - 1)]

\* lodash range(start, end) for an integer start and a fraction end: the step
\* is 1 if start < end and -1 otherwise, and the length is
\* max(ceil((end - start) / step), 0).
range(start, end) ==
    LET diff == end.num - start * end.den       \* (end - start) * end.den
        step == IF diff > 0 THEN 1 ELSE -1
        length == Max(CeilDiv(IF step = 1 THEN diff ELSE -diff, end.den), 0)
    IN  [i \in 1..length |-> start + (i - 1) * step]

\* A stagger time of 0 for every number of batches.
batchStaggerTime_Zero(totalCount, chain) == [num |-> 0, den |-> 1]

\* staggerTime = batchesCount <= 1 ? 0 : (dataFeedUpdateInterval / batchesCount) * 1000,
\* the fraction num / den of milliseconds.
batchStaggerTime(totalCount, chain) ==
    IF totalCount <= chain.dataFeedBatchSize THEN [num |-> 0, den |-> 1]
    ELSE [num |-> chain.dataFeedUpdateIntervalMs * chain.dataFeedBatchSize, den |-> totalCount]

\* The entries a registry of count active dAPIs returns for readDapis(offset, limit).
ReadDapisPage(offset, limit, count) == {i \in 0..(count - 1) : offset <= i /\ i < offset + limit}

IdleCycle ==
    [pc |-> "idle", goFirstBatch |-> [settled |-> FALSE],
     elapsed |-> 0, firstBatchDuration |-> 0, totalCount |-> 0, unit |-> 1, sleepLeft |-> 0,
     batches |-> <<>>, procs |-> <<>>, reads |-> <<>>, errors |-> <<>>]

FeedInit ==
    /\ updateFeedChain \in FeedChains
    /\ registryCount \in 0..MaxDapis
    /\ feedTimer = [registered |-> TRUE,
                    remaining |-> updateFeedChain.dataFeedUpdateIntervalMs, ticks |-> 0,
                    overlapping |-> 0]
    /\ cycle = IdleCycle

\* processBatch(batch) is called: the task runs until its promise settles.
ProcessBatchCall(batchIndex) == [batchIndex |-> batchIndex, st |-> "running"]

\* runUpdateFeed is called: it notes firstBatchStartTime and asks for
\* readDapis(0, size).
StartedCycle(chain) ==
    [IdleCycle EXCEPT !.pc = "readFirstPage",
        !.reads = <<[call |-> "readDapis", offset |-> 0, limit |-> chain.dataFeedBatchSize]>>]

\* A timer whose callback waits for the cycle before it to be over.
FeedTimerTick_Serialized ==
    /\ feedTimer.registered
    /\ feedTimer.remaining = 0
    /\ feedTimer.ticks < MaxTicks
    /\ cycle.pc \in {"idle", "returned", "thrown"}
    /\ feedTimer' = [feedTimer EXCEPT !.ticks = @ + 1,
                        !.remaining = updateFeedChain.dataFeedUpdateIntervalMs,
                        !.overlapping = 0]
    /\ cycle' = StartedCycle(updateFeedChain)
    /\ UNCHANGED <<updateFeedChain, registryCount>>

\* The timer's callback runs and calls runUpdateFeed.  The call is followed
\* when the call followed before it is over; otherwise it is counted as a
\* cycle started while the followed one is in flight.
FeedTimerTick ==
    /\ feedTimer.registered
    /\ feedTimer.remaining = 0
    /\ feedTimer.ticks < MaxTicks
    /\ feedTimer' = [feedTimer EXCEPT !.ticks = @ + 1,
                        !.remaining = updateFeedChain.dataFeedUpdateIntervalMs,
                        !.overlapping = IF cycle.pc \in {"idle", "returned", "thrown"}
                                        THEN 0 ELSE @ + 1]
    /\ IF cycle.pc \in {"idle", "returned", "thrown"}
       THEN cycle' = StartedCycle(updateFeedChain)
       ELSE UNCHANGED cycle
    /\ UNCHANGED <<updateFeedChain, registryCount>>

\* The first batch could not be read, but the function goes on with an empty
\* batch instead of returning.
FailFirstBatch_NoReturn(c) ==
    [c EXCEPT !.pc = "staggerSleep",
              !.errors = Append(@, "Failed to get first active dAPIs batch"),
              !.procs = Append(@, ProcessBatchCall(0))]

\* go() reports the failure of the first batch: the error is logged and the
\* function returns.
FailFirstBatch(c) ==
    [c EXCEPT !.pc = "returned",
              !.errors = Append(@, "Failed to get first active dAPIs batch")]

\* readDapis(0, size) settles; on success dapisCount() is asked for.
FirstPageSettles(ok) ==
    /\ cycle.pc = "readFirstPage"
    /\ cycle' = IF ok
                THEN [cycle EXCEPT !.pc = "readCount",
                                   !.reads = Append(@, [call |-> "dapisCount"])]
                ELSE FailFirstBatch([cycle EXCEPT !.goFirstBatch =
                        [settled |-> TRUE, success |-> FALSE, error |-> "readDapis"]])
    /\ UNCHANGED <<updateFeedChain, registryCount, feedTimer>>

\* dapisCount() settles.  On success the first batch is handed to
\* processBatch, the stagger time is computed and the rest of it, after the
\* time the first batch took, is slept.
CountSettles(ok) ==
    /\ cycle.pc = "readCount"
    /\ cycle' =
         IF ok
         THEN LET stagger == batchStaggerTime(registryCount, updateFeedChain)
                  firstBatchDuration == cycle.elapsed
              IN  [cycle EXCEPT
                      !.pc = "staggerSleep",
                      !.goFirstBatch = [settled |-> TRUE, success |-> TRUE],
                      !.totalCount = registryCount,
                      !.firstBatchDuration = firstBatchDuration,
                      !.procs = Append(@, ProcessBatchCall(0)),
                      !.unit = stagger.den,
                      !.sleepLeft = Max(0, stagger.num - firstBatchDuration * stagger.den)]
         ELSE FailFirstBatch([cycle EXCEPT !.goFirstBatch =
                 [settled |-> TRUE, success |-> FALSE, error |-> "dapisCount"]])
    /\ UNCHANGED <<updateFeedChain, registryCount, feedTimer>>

\* The sleep after the first batch resolves: the callback of every other
\* batch index starts and sleeps (batchIndex - 1) * staggerTime.
StaggerSleepResolves ==
    /\ cycle.pc = "staggerSleep"
    /\ cycle.sleepLeft = 0
    /\ LET indexes == range(1, batchesCount(cycle.totalCount, updateFeedChain))
           stagger == batchStaggerTime(cycle.totalCount, updateFeedChain)
       IN  cycle' = [cycle EXCEPT
                        !.pc = "awaitBatches",
                        !.batches = [i \in 1..Len(indexes) |->
                            [batchIndex |-> indexes[i], st |-> "sleeping",
                             sleepLeft |-> (indexes[i] - 1) * stagger.num,
                             issuedAt |-> 0]]]
    /\ UNCHANGED <<updateFeedChain, registryCount, feedTimer>>

\* The sleep of a batch callback resolves (timers resolve in the order of
\* their delays): readDapis(batchIndex * size, size) is asked for.
BatchSleepResolves(i) ==
    /\ cycle.pc = "awaitBatches"
    /\ i \in DOMAIN cycle.batches
    /\ cycle.batches[i].st = "sleeping"
    /\ cycle.batches[i].sleepLeft = 0
    /\ \A j \in 1..(i - 1) : cycle.batches[j].st # "sleeping"
    /\ cycle' = [cycle EXCEPT
                    !.batches[i].st = "reading",
                    !.batches[i].issuedAt = cycle.elapsed,
                    !.reads = Append(@, [call |-> "readDapis",
                        offset |-> cycle.batches[i].batchIndex * updateFeedChain.dataFeedBatchSize,
                        limit |-> updateFeedChain.dataFeedBatchSize])]
    /\ UNCHANGED <<updateFeedChain, registryCount, feedTimer>>

\* The read of a batch settles.
BatchReadSettles(i, ok) ==
    /\ cycle.pc = "awaitBatches"
    /\ i \in DOMAIN cycle.batches
    /\ cycle.batches[i].st = "reading"
    /\ cycle' = [cycle EXCEPT !.batches[i].st = IF ok THEN "fulfilled" ELSE "rejected"]
    /\ UNCHANGED <<updateFeedChain, registryCount, feedTimer>>

isFulfilled(result) == result.st = "fulfilled"

\* The state of Promise.allSettled(tasks): fulfilled once every task has
\* settled, never rejected.
PromiseAllSettled(tasks) ==
    IF \A i \in DOMAIN tasks : tasks[i].st \in {"fulfilled", "rejected"} THEN "fulfilled"
    ELSE "pending"

\* The filter that keeps every batch result.
FulfilledBatches_Unfiltered(results) == results

\* otherBatches.filter((result) => isFulfilled(result))
FulfilledBatches(results) == SelectSeq(results, isFulfilled)

\* otherBatches.filter((batch) => !isFulfilled(batch))
RejectedBatches(results) == SelectSeq(results, LAMBDA r : ~isFulfilled(r))

\* The join of the batch reads has settled: an error is logged for every
\* rejected batch and processBatch is called for every fulfilled one.  A
\* rejected join throws out of the function.
BatchesJoined ==
    /\ cycle.pc = "awaitBatches"
    /\ PromiseAllSettled(cycle.batches) # "pending"
    /\ cycle' =
         IF PromiseAllSettled(cycle.batches) = "rejected"
         THEN [cycle EXCEPT !.pc = "thrown"]
         ELSE LET failed == RejectedBatches(cycle.batches)
                  succeeded == FulfilledBatches(cycle.batches)
              IN  [cycle EXCEPT
                      !.pc = "awaitProcessing",
                      !.errors = @ \o [k \in 1..Len(failed) |-> "Failed to get active dAPIs batch"],
                      !.procs = @ \o [k \in 1..Len(succeeded) |->
                                         ProcessBatchCall(succeeded[k].batchIndex)]]
    /\ UNCHANGED <<updateFeedChain, registryCount, feedTimer>>

\* A processBatch task ends (its body is still to be written; it does not throw).
ProcessBatchEnds(k) ==
    /\ k \in DOMAIN cycle.procs
    /\ cycle.procs[k].st = "running"
    /\ cycle' = [cycle EXCEPT !.procs[k].st = "fulfilled"]
    /\ UNCHANGED <<updateFeedChain, registryCount, feedTimer>>

\* A join that does not wait for its tasks.
PromiseAll_NotAwaited(tasks) == "fulfilled"

\* The state of Promise.all(tasks).
PromiseAll(tasks) ==
    IF \E i \in DOMAIN tasks : tasks[i].st = "rejected" THEN "rejected"
    ELSE IF \A i \in DOMAIN tasks : tasks[i].st = "fulfilled" THEN "fulfilled"
    ELSE "pending"

\* await Promise.all([processFirstBatchPromise, ...processOtherBatchesPromises])
\* is over: runUpdateFeed returns.
CycleReturns ==
    /\ cycle.pc = "awaitProcessing"
    /\ PromiseAll(cycle.procs) # "pending"
    /\ cycle' = [cycle EXCEPT
                    !.pc = IF PromiseAll(cycle.procs) = "rejected" THEN "thrown" ELSE "returned"]
    /\ UNCHANGED <<updateFeedChain, registryCount, feedTimer>>

\* A millisecond passes: the stopwatch of the cycle counts until all reads
\* are issued, and every pending sleep and the timer have one millisecond
\* less to wait.
AdvanceFeedClock ==
    /\ feedTimer' = [feedTimer EXCEPT !.remaining = Max(0, @ - 1)]
    /\ cycle' =
         IF cycle.pc \in {"readFirstPage", "readCount", "staggerSleep", "awaitBatches"}
         THEN [cycle EXCEPT
                 !.elapsed = IF \/ cycle.pc # "awaitBatches"
                                \/ \E i \in DOMAIN cycle.batches : cycle.batches[i].st = "sleeping"
                             THEN Min(ElapsedCap, @ + 1) ELSE @,
                 !.sleepLeft = Max(0, @ - cycle.unit),
                 !.batches = [i \in DOMAIN cycle.batches |->
                     IF cycle.batches[i].st = "sleeping"
                     THEN [cycle.batches[i] EXCEPT !.sleepLeft = Max(0, @ - cycle.unit)]
                     ELSE cycle.batches[i]]]
         ELSE cycle
    /\ UNCHANGED <<updateFeedChain, registryCount>>

InitUpdateFeed == UpdIdle /\ DevIdle /\ MedIdle /\ DecIdle /\ LoopIdle /\ FeedInit /\ FetchIdle /\ UtilIdle

NextUpdateFeed ==
    \/ FeedTimerTick /\ UNCHANGED <<updVars, devVars, medVars, decVars, loopVars, fetchVars, utilVars>>
    \/ \E ok \in BOOLEAN :
          FirstPageSettles(ok) /\ UNCHANGED <<updVars, devVars, medVars, decVars, loopVars, fetchVars, utilVars>>
    \/ \E ok \in BOOLEAN :
          CountSettles(ok) /\ UNCHANGED <<updVars, devVars, medVars, decVars, loopVars, fetchVars, utilVars>>
    \/ StaggerSleepResolves /\ UNCHANGED <<updVars, devVars, medVars, decVars, loopVars, fetchVars, utilVars>>
    \/ \E i \in 1..MaxDapis :
          BatchSleepResolves(i) /\ UNCHANGED <<updVars, devVars, medVars, decVars, loopVars, fetchVars, utilVars>>
    \/ \E i \in 1..MaxDapis, ok \in BOOLEAN :
          BatchReadSettles(i, ok) /\ UNCHANGED <<updVars, devVars, medVars, decVars, loopVars, fetchVars, utilVars>>
    \/ BatchesJoined /\ UNCHANGED <<updVars, devVars, medVars, decVars, loopVars, fetchVars, utilVars>>
    \/ \E k \in 1..(MaxDapis + 1) :
          ProcessBatchEnds(k) /\ UNCHANGED <<updVars, devVars, medVars, decVars, loopVars, fetchVars, utilVars>>
    \/ CycleReturns /\ UNCHANGED <<updVars, devVars, medVars, decVars, loopVars, fetchVars, utilVars>>
    \/ AdvanceFeedClock /\ UNCHANGED <<updVars, devVars, medVars, decVars, loopVars, fetchVars, utilVars>>

SpecUpdateFeed == InitUpdateFeed /\ [][NextUpdateFeed]_vars

\* The steps of a cycle that need nothing but the event loop or the
\* settling of a registry read.
CycleStep ==
    /\ UNCHANGED <<updVars, devVars, medVars, decVars, loopVars, fetchVars, utilVars>>
    /\ \/ \E ok \in BOOLEAN : FirstPageSettles(ok)
       \/ \E ok \in BOOLEAN : CountSettles(ok)
       \/ StaggerSleepResolves
       \/ \E i \in 1..MaxDapis : BatchSleepResolves(i)
       \/ \E i \in 1..MaxDapis, ok \in BOOLEAN : BatchReadSettles(i, ok)
       \/ BatchesJoined
       \/ \E k \in 1..(MaxDapis + 1) : ProcessBatchEnds(k)
       \/ CycleReturns

\* A millisecond passes for the cycle and for nothing else.
FeedTimePasses ==
    AdvanceFeedClock /\ UNCHANGED <<updVars, devVars, medVars, decVars, loopVars, fetchVars, utilVars>>

\* Time passes, every registry read settles and the event loop runs every
\* continuation that is ready.
SpecUpdateFeedFair ==
    SpecUpdateFeed /\ WF_vars(FeedTimePasses) /\ WF_vars(CycleStep)

---------------------------------------------------------------------------
(***************************************************************************)
(* Claims about runUpdateFeed.                                             *)
(***************************************************************************)
FirstBatchFailed == cycle.goFirstBatch.settled /\ ~cycle.goFirstBatch.success
FirstBatchSucceeded == cycle.goFirstBatch.settled /\ cycle.goFirstBatch.success

\* The registry reads a cycle has issued when the call named by error is
\* the one that failed in the first batch.
ReadsUpTo(error) ==
    IF error = "readDapis"
    THEN <<[call |-> "readDapis", offset |-> 0, limit |-> updateFeedChain.dataFeedBatchSize]>>
    ELSE <<[call |-> "readDapis", offset |-> 0, limit |-> updateFeedChain.dataFeedBatchSize],
           [call |-> "dapisCount"]>>

\* C11: when the read of the first batch fails, be it the page read or the
\* count read, the cycle has logged exactly one error, has issued no registry
\* read after the failed one, has handed no batch to processBatch and has
\* returned without throwing; and the timer's next tick starts a cycle that
\* carries nothing over.
C11_FirstBatchFailureAbortsCycle ==
    /\ [](FirstBatchFailed =>
            /\ cycle.pc = "returned"
            /\ Len(cycle.errors) = 1
            /\ cycle.reads = ReadsUpTo(cycle.goFirstBatch.error)
            /\ cycle.batches = <<>>
            /\ cycle.procs = <<>>
            /\ feedTimer.registered)
    /\ [][(FirstBatchFailed /\ feedTimer'.ticks = feedTimer.ticks + 1)
            => cycle' = StartedCycle(updateFeedChain)]_vars

C11_Witness ==
    /\ FirstBatchFailed
    /\ cycle.goFirstBatch.error = "dapisCount"
    /\ feedTimer.ticks = 1
    /\ feedTimer.remaining = 0
    /\ registryCount > updateFeedChain.dataFeedBatchSize

BatchReads == {r \in DOMAIN cycle.reads : cycle.reads[r].call = "readDapis"}
BatchesSettled == cycle.pc \in {"awaitProcessing", "returned"}
FailedBatches == {i \in DOMAIN cycle.batches : cycle.batches[i].st = "rejected"}
NoReadFailed == FirstBatchSucceeded /\ FailedBatches = {}

\* C12: with a registry that does not change and no failing read, the pages
\* read in one cycle contain every feed index 0..totalCount-1 exactly once,
\* for every totalCount >= 0 and batch size >= 1, multiples or not.
C12_PagesCoverEveryFeedOnce ==
    (BatchesSettled /\ NoReadFailed) =>
        \A index \in 0..(registryCount - 1) :
            Cardinality({r \in BatchReads :
                index \in ReadDapisPage(cycle.reads[r].offset, cycle.reads[r].limit,
                                        registryCount)}) = 1

C12_Witness ==
    /\ cycle.pc = "returned"
    /\ NoReadFailed
    /\ registryCount = 3
    /\ updateFeedChain.dataFeedBatchSize = 2

ProcessedTimes(batchIndex) ==
    Cardinality({k \in DOMAIN cycle.procs : cycle.procs[k].batchIndex = batchIndex})

\* C13: after a first batch that succeeded, whichever later batches fail to
\* be read, one error is logged for each of them and none of them is handed
\* to processBatch, while the first batch and every later batch that was
\* read are handed to processBatch exactly once: no failure keeps another
\* batch from being fetched and processed, and none is thrown.
C13_LaterFailuresAreIsolated ==
    /\ FirstBatchSucceeded => cycle.pc # "thrown"
    /\ (FirstBatchSucceeded /\ BatchesSettled) =>
        /\ Len(cycle.errors) = Cardinality(FailedBatches)
        /\ ProcessedTimes(0) = 1
        /\ \A i \in DOMAIN cycle.batches :
            /\ ProcessedTimes(cycle.batches[i].batchIndex) =
                    (IF i \in FailedBatches THEN 0 ELSE 1)
            /\ Cardinality({r \in BatchReads : cycle.reads[r].offset =
                    cycle.batches[i].batchIndex * updateFeedChain.dataFeedBatchSize}) = 1

C13_Witness ==
    /\ cycle.pc = "returned"
    /\ FirstBatchSucceeded
    /\ Len(cycle.batches) = 2
    /\ FailedBatches = {1}

CycleSafe ==
    /\ cycle.pc # "thrown"
    /\ cycle.pc = "returned" =>
            \A k \in DOMAIN cycle.procs : cycle.procs[k].st = "fulfilled"
    /\ feedTimer.registered

\* C14: whatever the outcomes of its reads, as long as each of them settles,
\* a cycle that has started returns in the end and throws nothing to the
\* timer; it returns only when every processBatch task it started is over;
\* and the repeating timer stays registered, so the next tick runs.
C14_CycleAlwaysCompletes ==
    /\ []CycleSafe
    /\ (cycle.pc # "idle") ~> (cycle.pc = "returned")

C14_Witness ==
    /\ cycle.pc = "returned"
    /\ Len(cycle.procs) = 2
    /\ FailedBatches = {2}
    /\ feedTimer.ticks = 1

---------------------------------------------------------------------------
(***************************************************************************)
(* signed-api-fetch: runDataFetcher and stopDataFetcher.                   *)
(*                                                                         *)
(* runDataFetcher runs without a break from its call to the HTTP GET of    *)
(* every URL; that stretch is one action.  Each per-URL task has the       *)
(* promise of its go() wrapper (outer) and the function wrapped (inner):   *)
(* a go() that times out resolves its promise and leaves the function      *)
(* running.  The timeouts are given by constants that are not part of the  *)
(* sources modelled and by the configured interval, so a timeout may fall  *)
(* at any moment before the HTTP call settles.                             *)
(***************************************************************************)
SignedApiUrls == {"https://api-1", "https://api-2"}

\* The flattened signedApiUrlStore: a URL may be recorded more than once.
SignedApiUrlStores ==
    {<<"https://api-1">>, <<"https://api-1", "https://api-2", "https://api-1">>}

\* The signed data an API can serve, by the fields the fetcher reads.
SignedDatas ==
    {[airnode |-> "0xA", templateId |-> "0x1"], [airnode |-> "0xA", templateId |-> "0x2"],
     [airnode |-> "0xB", templateId |-> "0x1"]}

\* The beacons of the dAPIs that can be active: the APIs also serve signed
\* data of an airnode of theirs that belongs to no beacon.
Beacons ==
    {[airnodeAddress |-> "0xA", templateId |-> "0x1"],
     [airnodeAddress |-> "0xB", templateId |-> "0x1"]}

\* The outcomes of one HTTP GET: a transport failure, a body the schema
\* rejects, or a body with signed data: those of one airnode or of all.
ApiResponses ==
    {[kind |-> "httpFailed"], [kind |-> "schemaViolation"],
     [kind |-> "ok", data |-> {signedData \in SignedDatas : signedData.airnode = "0xA"}],
     [kind |-> "ok", data |-> SignedDatas]}

\* go()'s option retries: 0, of the HTTP call and of the task around it.
retries == 0

\* The array as it is, duplicates included.
uniq_KeepsDuplicates(array) == array

RECURSIVE uniq(_)
\* lodash uniq: the first occurrence of every value, in order.
uniq(array) ==
    IF array = <<>> THEN <<>>
    ELSE LET init == uniq(SubSeq(array, 1, Len(array) - 1))
             last == array[Len(array)]
         IN  IF \E i \in DOMAIN init : init[i] = last THEN init ELSE Append(init, last)

\* The beacons of the active dAPIs, as process state holds them.
getBeaconsForActiveDapis(state) == state.activeBeacons

\* A condition that lets every invocation register a timer.
NoTimerHandle_Always(dataFetcherInterval) == TRUE

\* !dataFetcherInterval: no timer handle is in state (0 stands for undefined).
NoTimerHandle(dataFetcherInterval) == dataFetcherInterval = 0

\* A filter that matches a beacon by its airnode alone.
beaconsForActiveDApis_AirnodeOnly(payload, activeBeacons) ==
    {signedData \in payload :
        \E beacon \in activeBeacons : beacon.airnodeAddress = signedData.airnode}

\* payload.filter(...): the signed data of the payload that match an active
\* beacon in airnode and in template.
beaconsForActiveDApis(payload, activeBeacons) ==
    {signedData \in payload :
        \E beacon \in activeBeacons :
            /\ beacon.airnodeAddress = signedData.airnode
            /\ beacon.templateId = signedData.templateId}

\* localDataStore.setStoreDataPoint for every element: the store keeps one
\* data point for each (airnode, templateId).
setStoreDataPoints(store, elements) == store \cup elements

\* A purge that removes nothing.
purgeInactiveDataPoints_KeepsAll(store, state) == store

\* purgeInactiveDataPoints: only the data points of beacons of the dAPIs
\* active now are kept.
purgeInactiveDataPoints(store, state) ==
    beaconsForActiveDApis(store, getBeaconsForActiveDapis(state))

\* A call that takes a body the schema rejects for an empty payload.
callSignedDataApi_AcceptsAnyBody(response) ==
    IF response.kind = "httpFailed" THEN [threw |-> TRUE, payload |-> {}]
    ELSE [threw |-> FALSE, payload |-> IF response.kind = "ok" THEN response.data ELSE {}]

\* callSignedDataApi: throws when the HTTP call failed or when the schema
\* rejects the body, and returns the signed data otherwise.
callSignedDataApi(response) ==
    IF response.kind = "ok" THEN [threw |-> FALSE, payload |-> response.data]
    ELSE [threw |-> TRUE, payload |-> {}]

NoTick == [pc |-> "none", origin |-> "none", purges |-> 0, activeBeacons |-> {}, tasks |-> <<>>]

FetchInit ==
    /\ fetcherState \in [dataFetcherInterval : {0}, signedApiUrlStore : SignedApiUrlStores,
                         activeBeacons : SUBSET Beacons]
    /\ fetcherTimers = <<>>
    /\ signedDataStore = {}
    /\ fetcherCalls = [direct |-> 0, timer |-> 0]
    /\ fetchTick = NoTick
    /\ fetcherStopped = [called |-> FALSE, handle |-> 0, pending |-> {}]

\* A timer that waits for the calls of the tick before it to settle.
TimerFires_WhenSettled(timers) ==
    /\ \E h \in DOMAIN timers : ~timers[h].cleared
    /\ \A i \in DOMAIN fetchTick.tasks : fetchTick.tasks[i].inner = "done"

\* setInterval(runDataFetcher, signedDataFetchIntervalMs): the callback is
\* run at every interval for as long as the timer is not cleared.
TimerFires(timers) == \E h \in DOMAIN timers : ~timers[h].cleared

\* runDataFetcher is called, directly or by the timer, and runs up to the
\* HTTP GET of every URL: it registers the timer when state holds no handle,
\* collects the URLs and reads the active beacons.  One invocation is
\* followed to its end; the others are followed in what they do to the
\* store (OtherTickStores, OtherTickPurges).
RunDataFetcher(origin, followed) ==
    /\ fetcherCalls.direct + fetcherCalls.timer < MaxFetchTicks
    /\ origin = "timer" => TimerFires(fetcherTimers)
    /\ followed => fetchTick.pc = "none"
    /\ fetcherCalls' = [fetcherCalls EXCEPT ![origin] = @ + 1]
    /\ IF NoTimerHandle(fetcherState.dataFetcherInterval)
       THEN /\ fetcherTimers' = Append(fetcherTimers, [cleared |-> FALSE])
            /\ fetcherState' = [fetcherState EXCEPT
                                    !.dataFetcherInterval = Len(fetcherTimers) + 1]
       ELSE UNCHANGED <<fetcherTimers, fetcherState>>
    /\ IF followed
       THEN LET urls == uniq(fetcherState.signedApiUrlStore)
            IN  fetchTick' =
                   [origin |-> origin, pc |-> "fetching", purges |-> 0,
                    activeBeacons |-> getBeaconsForActiveDapis(fetcherState),
                    tasks |-> [i \in DOMAIN urls |->
                        [url |-> urls[i], outer |-> "pending", inner |-> "running",
                         gets |-> 1, response |-> [kind |-> "none"], warnings |-> 0,
                         wrote |-> {}, wroteAfterPurge |-> FALSE]]]
       ELSE UNCHANGED fetchTick
    /\ UNCHANGED <<signedDataStore, fetcherStopped>>

\* The HTTP call of a task settles and callSignedDataApi returns or throws:
\* the function wrapped by go() filters the payload and stores what is left;
\* when it threw and its go() has not timed out, go() runs it again while
\* retries are left (another GET), and else the warning is logged.
CallSettles(i, response) ==
    /\ i \in DOMAIN fetchTick.tasks
    /\ fetchTick.tasks[i].inner = "running"
    /\ LET task == fetchTick.tasks[i]
           result == callSignedDataApi(response)
           elements == beaconsForActiveDApis(result.payload, fetchTick.activeBeacons)
       IN  IF result.threw
           THEN /\ fetchTick' = [fetchTick EXCEPT !.tasks[i] =
                        IF task.outer = "pending" /\ task.gets <= retries
                        THEN [task EXCEPT !.gets = @ + 1]
                        ELSE IF task.outer = "pending"
                        THEN [task EXCEPT !.inner = "done", !.response = response,
                                          !.outer = "failed", !.warnings = @ + 1]
                        ELSE [task EXCEPT !.inner = "done", !.response = response]]
                /\ UNCHANGED signedDataStore
           ELSE /\ fetchTick' = [fetchTick EXCEPT !.tasks[i] =
                        [task EXCEPT !.inner = "done", !.response = response,
                            !.wrote = elements,
                            !.wroteAfterPurge = elements # {} /\ fetchTick.purges > 0,
                            !.outer = IF @ = "pending" THEN "succeeded" ELSE @]]
                /\ signedDataStore' = setStoreDataPoints(signedDataStore, elements)
    /\ UNCHANGED <<fetcherState, fetcherTimers, fetcherCalls, fetcherStopped>>

\* The go() around a task times out before the HTTP call has settled: its
\* promise resolves as a failure and the warning is logged, while the
\* function it wrapped keeps waiting for the call.
GoTimesOut(i) ==
    /\ i \in DOMAIN fetchTick.tasks
    /\ fetchTick.tasks[i].outer = "pending"
    /\ fetchTick' = [fetchTick EXCEPT !.tasks[i].outer = "timedOut",
                                      !.tasks[i].warnings = @ + 1]
    /\ UNCHANGED <<fetcherState, fetcherTimers, signedDataStore, fetcherCalls, fetcherStopped>>

\* await Promise.all(...) is over: the inactive data points are purged and
\* runDataFetcher returns.
FetcherJoined ==
    /\ fetchTick.pc = "fetching"
    /\ \A i \in DOMAIN fetchTick.tasks : fetchTick.tasks[i].outer # "pending"
    /\ signedDataStore' = purgeInactiveDataPoints(signedDataStore, fetcherState)
    /\ fetchTick' = [fetchTick EXCEPT !.pc = "returned", !.purges = @ + 1]
    /\ UNCHANGED <<fetcherState, fetcherTimers, fetcherCalls, fetcherStopped>>

\* The invocations that are not followed.
OtherTicks ==
    fetcherCalls.direct + fetcherCalls.timer - (IF fetchTick.pc = "none" THEN 0 ELSE 1)

\* A task of another invocation stores the signed data that match the
\* active beacons that invocation read.
OtherTickStores(activeBeacons) ==
    /\ OtherTicks > 0
    /\ signedDataStore' =
          setStoreDataPoints(signedDataStore, beaconsForActiveDApis(SignedDatas, activeBeacons))
    /\ signedDataStore' # signedDataStore
    /\ UNCHANGED <<fetcherState, fetcherTimers, fetcherCalls, fetchTick, fetcherStopped>>

\* Another invocation purges the inactive data points.
OtherTickPurges ==
    /\ OtherTicks > 0
    /\ signedDataStore' = purgeInactiveDataPoints(signedDataStore, fetcherState)
    /\ signedDataStore' # signedDataStore
    /\ UNCHANGED <<fetcherState, fetcherTimers, fetcherCalls, fetchTick, fetcherStopped>>

\* The tasks of the followed invocation whose HTTP call has not settled.
InFlight ==
    {i \in DOMAIN fetchTick.tasks : fetchTick.tasks[i].inner = "running"}

\* A stop that leaves the timer running.
clearInterval_Nothing(timers, handle) == timers

\* clearInterval(handle): the timer of the handle, if there is one, is cancelled.
clearInterval(timers, handle) ==
    [h \in DOMAIN timers |-> IF h = handle THEN [timers[h] EXCEPT !.cleared = TRUE]
                             ELSE timers[h]]

\* A stop that also removes the handle from state.
StopDataFetcher_ForgetsHandle ==
    /\ fetcherStopped.called => fetcherStopped.handle # fetcherState.dataFetcherInterval
    /\ fetcherTimers' = clearInterval(fetcherTimers, fetcherState.dataFetcherInterval)
    /\ fetcherStopped' = [called |-> TRUE, handle |-> fetcherState.dataFetcherInterval,
                          pending |-> InFlight]
    /\ fetcherState' = [fetcherState EXCEPT !.dataFetcherInterval = 0]
    /\ UNCHANGED <<signedDataStore, fetcherCalls, fetchTick>>

\* stopDataFetcher: clearInterval(getState().dataFetcherInterval).
StopDataFetcher ==
    /\ fetcherStopped.called => fetcherStopped.handle # fetcherState.dataFetcherInterval
    /\ fetcherTimers' = clearInterval(fetcherTimers, fetcherState.dataFetcherInterval)
    /\ fetcherStopped' = [called |-> TRUE, handle |-> fetcherState.dataFetcherInterval,
                          pending |-> InFlight]
    /\ UNCHANGED <<fetcherState, signedDataStore, fetcherCalls, fetchTick>>

\* The scheduler replaces the set of active dAPIs in process state.
SetActiveDapis(beacons) ==
    /\ beacons # fetcherState.activeBeacons
    /\ fetcherState' = [fetcherState EXCEPT !.activeBeacons = beacons]
    /\ UNCHANGED <<fetcherTimers, signedDataStore, fetcherCalls, fetchTick, fetcherStopped>>

InitFetcher == UpdIdle /\ DevIdle /\ MedIdle /\ DecIdle /\ LoopIdle /\ FeedIdle /\ FetchInit /\ UtilIdle

NextFetcher ==
    \/ \E origin \in {"direct", "timer"}, followed \in BOOLEAN :
          RunDataFetcher(origin, followed) /\ UNCHANGED <<updVars, devVars, medVars, decVars, loopVars, feedVars, utilVars>>
    \/ \E i \in 1..Cardinality(SignedApiUrls), response \in ApiResponses :
          CallSettles(i, response) /\ UNCHANGED <<updVars, devVars, medVars, decVars, loopVars, feedVars, utilVars>>
    \/ \E i \in 1..Cardinality(SignedApiUrls) :
          GoTimesOut(i) /\ UNCHANGED <<updVars, devVars, medVars, decVars, loopVars, feedVars, utilVars>>
    \/ FetcherJoined /\ UNCHANGED <<updVars, devVars, medVars, decVars, loopVars, feedVars, utilVars>>
    \/ \E activeBeacons \in SUBSET Beacons :
          OtherTickStores(activeBeacons) /\ UNCHANGED <<updVars, devVars, medVars, decVars, loopVars, feedVars, utilVars>>
    \/ OtherTickPurges /\ UNCHANGED <<updVars, devVars, medVars, decVars, loopVars, feedVars, utilVars>>
    \/ StopDataFetcher /\ UNCHANGED <<updVars, devVars, medVars, decVars, loopVars, feedVars, utilVars>>
    \/ \E beacons \in SUBSET Beacons :
          SetActiveDapis(beacons) /\ UNCHANGED <<updVars, devVars, medVars, decVars, loopVars, feedVars, utilVars>>

SpecFetcher == InitFetcher /\ [][NextFetcher]_vars

---------------------------------------------------------------------------
(***************************************************************************)
(* Claims about runDataFetcher and stopDataFetcher.                        *)
(***************************************************************************)
\* C15: whatever the sequence of runDataFetcher invocations, direct or by
\* the timer, at most one repeating timer is ever registered: an invocation
\* registers one only when it finds no handle in state and leaves the handle
\* there, so every later invocation registers none.
C15_AtMostOneFetcherTimer ==
    /\ [](Len(fetcherTimers) <= 1)
    /\ [][Len(fetcherTimers') > Len(fetcherTimers) =>
            /\ fetcherState.dataFetcherInterval = 0
            /\ fetcherState'.dataFetcherInterval # 0]_vars

C15_Witness ==
    /\ fetcherCalls.direct = 1
    /\ fetcherCalls.timer = 1
    /\ Len(fetcherTimers) = 1

Matches(signedData, beacon) ==
    signedData.airnode = beacon.airnodeAddress /\ signedData.templateId = beacon.templateId

\* C16: every signed data point a tick hands to the store has the airnode
\* address and the template id of one of the active beacons that tick read;
\* the points of a response that match none of them are not written.
C16_WritesOnlyActiveBeacons ==
    \A i \in DOMAIN fetchTick.tasks :
        \A signedData \in fetchTick.tasks[i].wrote :
            /\ signedData \in fetchTick.tasks[i].response.data
            /\ \E beacon \in fetchTick.activeBeacons : Matches(signedData, beacon)

C16_Witness ==
    \E i \in DOMAIN fetchTick.tasks :
        /\ fetchTick.tasks[i].wrote # {}
        /\ fetchTick.tasks[i].response.data = SignedDatas
        /\ fetchTick.activeBeacons # Beacons

\* C17, as stated: in every reachable state every data point in the store
\* belongs to a beacon of a dAPI that is active in that state.
C17_StoreHoldsOnlyActiveBeacons ==
    \A signedData \in signedDataStore :
        \E beacon \in fetcherState.activeBeacons : Matches(signedData, beacon)

\* C17: when the purge of a tick has run, every data point left in the store
\* belongs to a beacon of a dAPI active at that moment; between purges the
\* store can hold points of beacons that were deactivated since.
C17_PurgeLeavesOnlyActiveBeacons ==
    [][fetchTick'.purges > fetchTick.purges =>
        \A signedData \in signedDataStore' :
            \E beacon \in fetcherState'.activeBeacons : Matches(signedData, beacon)]_vars

C17_Witness ==
    /\ fetchTick.pc = "returned"
    /\ fetchTick.activeBeacons = Beacons
    /\ fetcherState.activeBeacons # Beacons
    /\ signedDataStore # {}
    /\ C17_StoreHoldsOnlyActiveBeacons
    /\ \E i \in DOMAIN fetchTick.tasks :
            /\ fetchTick.tasks[i].outer = "succeeded"
            /\ ~(fetchTick.tasks[i].wrote \subseteq signedDataStore)

\* C18, as stated: the purge of a tick runs once, after every per-URL task
\* of the tick has settled, and no data point of the tick is written to the
\* store after it.
C18_NoWriteAfterPurge ==
    /\ fetchTick.purges <= 1
    /\ fetchTick.pc = "returned" <=> fetchTick.purges = 1
    /\ fetchTick.purges = 1 =>
            \A i \in DOMAIN fetchTick.tasks : fetchTick.tasks[i].outer # "pending"
    /\ \A i \in DOMAIN fetchTick.tasks : ~fetchTick.tasks[i].wroteAfterPurge

CallFailed(task) == task.response.kind \in {"httpFailed", "schemaViolation"}

\* C19: a URL whose HTTP call fails or whose body the schema rejects writes
\* nothing and logs one warning; the other URLs of the tick still write the
\* points accepted from their responses, and the tick still purges once
\* and returns.
C19_FailedUrlIsDropped ==
    /\ \A i \in DOMAIN fetchTick.tasks :
        /\ CallFailed(fetchTick.tasks[i]) =>
                fetchTick.tasks[i].wrote = {} /\ fetchTick.tasks[i].warnings = 1
        /\ fetchTick.tasks[i].response.kind = "ok" =>
                fetchTick.tasks[i].wrote =
                    {signedData \in fetchTick.tasks[i].response.data :
                        \E beacon \in fetchTick.activeBeacons : Matches(signedData, beacon)}
    /\ fetchTick.pc \in {"none", "fetching", "returned"}
    /\ fetchTick.pc = "returned" => fetchTick.purges = 1

C19_Witness ==
    /\ fetchTick.pc = "returned"
    /\ Len(fetchTick.tasks) = 2
    /\ fetchTick.tasks[1].response.kind = "schemaViolation"
    /\ fetchTick.tasks[1].outer = "failed"
    /\ fetchTick.tasks[2].outer = "succeeded"
    /\ fetchTick.tasks[2].wrote # {}

StoppedTimer == fetcherStopped.called /\ fetcherStopped.handle # 0

\* C20: once stopDataFetcher has cancelled the timer, the timer starts no
\* further tick; the call itself leaves the tick in flight as it is, so its
\* HTTP calls can still settle, write their accepted points and be followed
\* by the purge of the tick.
C20_StopCancelsTimerOnly ==
    /\ [][StoppedTimer => fetcherCalls'.timer = fetcherCalls.timer]_vars
    /\ [][fetcherStopped' # fetcherStopped =>
            /\ fetchTick' = fetchTick
            /\ signedDataStore' = signedDataStore]_vars

C20_Witness ==
    /\ StoppedTimer
    /\ fetchTick.pc = "returned"
    /\ fetchTick.purges = 1
    /\ \E i \in fetcherStopped.pending :
            /\ fetchTick.tasks[i].outer = "succeeded"
            /\ fetchTick.tasks[i].wrote # {}

---------------------------------------------------------------------------
(***************************************************************************)
(* update-feeds utilities: mergeUrls.                                      *)
(***************************************************************************)
UrlNames == {"one", "two", "three"}

UrlEntries == [url : UrlNames, lastReceivedMs : 1..MaxReceivedMs]

UrlLists == UNION {[1..n -> UrlEntries] : n \in 0..MaxUrlEntries}

\* An ordering with the oldest entries first.
RECURSIVE orderByLastReceived_OldestFirst(_)
orderByLastReceived_OldestFirst(list) ==
    IF list = <<>> THEN <<>>
    ELSE LET last == list[Len(list)]
             rest == orderByLastReceived_OldestFirst(SubSeq(list, 1, Len(list) - 1))
         IN  SelectSeq(rest, LAMBDA e : e.lastReceivedMs <= last.lastReceivedMs)
                 \o <<last>>
                 \o SelectSeq(rest, LAMBDA e : e.lastReceivedMs > last.lastReceivedMs)

\* The entries with the greatest lastReceivedMs first; entries received at
\* the same time keep their order.
RECURSIVE orderByLastReceived(_)
orderByLastReceived(list) ==
    IF list = <<>> THEN <<>>
    ELSE LET last == list[Len(list)]
             rest == orderByLastReceived(SubSeq(list, 1, Len(list) - 1))
         IN  SelectSeq(rest, LAMBDA e : e.lastReceivedMs >= last.lastReceivedMs)
                 \o <<last>>
                 \o SelectSeq(rest, LAMBDA e : e.lastReceivedMs < last.lastReceivedMs)

\* The first entry of every URL, in order.
RECURSIVE uniqByUrl(_)
uniqByUrl(list) ==
    IF list = <<>> THEN <<>>
    ELSE LET last == list[Len(list)]
             rest == uniqByUrl(SubSeq(list, 1, Len(list) - 1))
         IN  IF \E i \in DOMAIN rest : rest[i].url = last.url THEN rest
             ELSE Append(rest, last)

\* mergeUrls(existingUrls, freshUrls): the entries of both, one per URL, the
\* one received last.
mergeUrls(existingUrls, freshUrls) ==
    uniqByUrl(orderByLastReceived(existingUrls \o freshUrls))

MergeInit ==
    /\ mergeArgs \in [existingUrls : UrlLists, freshUrls : UrlLists]
    /\ mergedUrls = NoCall
    /\ dynamicState = <<>>
    /\ dynamicCall = <<>>

CallMergeUrls ==
    /\ mergedUrls = NoCall
    /\ mergedUrls' = [status |-> "ok",
                      value |-> mergeUrls(mergeArgs.existingUrls, mergeArgs.freshUrls)]
    /\ UNCHANGED <<mergeArgs, dynamicState, dynamicCall>>

InitMergeUrls ==
    UpdIdle /\ DevIdle /\ MedIdle /\ DecIdle /\ LoopIdle /\ FeedIdle /\ FetchIdle /\ MergeInit

NextMergeUrls ==
    CallMergeUrls /\ UNCHANGED <<updVars, devVars, medVars, decVars, loopVars, feedVars, fetchVars>>

SpecMergeUrls == InitMergeUrls /\ [][NextMergeUrls]_vars

Entries(list) == {list[i] : i \in DOMAIN list}
UrlsOf(list) == {list[i].url : i \in DOMAIN list}
ReceivedMs(list, url) == {list[i].lastReceivedMs : i \in {j \in DOMAIN list : list[j].url = url}}

\* C21: mergeUrls(A, B) has exactly one entry for each URL of A or B and none
\* for any other URL, and the lastReceivedMs of each entry is the greatest
\* value its URL has in A and B; merging B again changes nothing, and with
\* the arguments exchanged the result has the same entries.
C21_MergeUrlsIsUnionKeepingGreatest ==
    mergedUrls.status = "ok" =>
        LET A == mergeArgs.existingUrls
            B == mergeArgs.freshUrls
            result == mergedUrls.value
        IN  /\ UrlsOf(result) = UrlsOf(A) \cup UrlsOf(B)
            /\ \A i, j \in DOMAIN result : result[i].url = result[j].url => i = j
            /\ \A i \in DOMAIN result :
                    /\ result[i].lastReceivedMs \in ReceivedMs(A \o B, result[i].url)
                    /\ \A ms \in ReceivedMs(A \o B, result[i].url) :
                            ms <= result[i].lastReceivedMs
            /\ mergeUrls(result, B) = result
            /\ Entries(mergeUrls(B, A)) = Entries(result)

C21_Witness ==
    /\ mergedUrls.status = "ok"
    /\ mergeArgs.existingUrls = <<[url |-> "one", lastReceivedMs |-> 2],
                                  [url |-> "three", lastReceivedMs |-> 2]>>
    /\ mergeArgs.freshUrls = <<[url |-> "one", lastReceivedMs |-> 1],
                               [url |-> "two", lastReceivedMs |-> 1]>>
    /\ mergedUrls.value = <<[url |-> "one", lastReceivedMs |-> 2],
                            [url |-> "three", lastReceivedMs |-> 2],
                            [url |-> "two", lastReceivedMs |-> 1]>>

----------------------------------------------------------------------------
\* updateDynamicState(batch, chainId): the merge of a decoded registry page
\* into the process state.

DapiNames == {"BTC/USD", "ETH/USD"}

StateChainIds == {"31337", "37337"}

\* Decoded data feeds: the feed's identifier and its beacons.
DecodedDataFeeds ==
    {[dataFeedId |-> "0x000",
      beacons |-> <<[dataFeedId |-> "0x001", templateId |-> "0xA01", airnodeAddress |-> "0x0A1"]>>],
     [dataFeedId |-> "0x111",
      beacons |-> <<[dataFeedId |-> "0x001", templateId |-> "0xA01", airnodeAddress |-> "0x0A1"],
                    [dataFeedId |-> "0x002", templateId |-> "0xB02", airnodeAddress |-> "0x0B2"]>>]}

\* The entries of a decoded page.
BatchItems ==
    [dapiName : DapiNames,
     updateParameters : {"parameters-1"},
     dataFeedValue : {"value-1"},
     decodedDataFeed : DecodedDataFeeds,
     signedApiUrls : {<<"https://one">>, <<"https://one", "https://two">>}]

\* The feeds a state holds before the call: each with values and update
\* parameters for some of the chains.
CachedDapis ==
    {[dataFeed |-> CHOOSE feed \in DecodedDataFeeds : feed.dataFeedId = "0x111",
      dataFeedValues |-> [c \in T |-> "value-0"],
      updateParameters |-> [c \in T |-> "parameters-0"]] : T \in (SUBSET StateChainIds) \ {{}}}

\* The process states the call starts from.
States ==
    [config : {"config"},
     dapis : UNION {[S -> CachedDapis] : S \in SUBSET DapiNames},
     signedApiStore : {"signedApiStore"},
     signedApiUrlStore : {<<>>, <<[url |-> <<"url-one">>, lastReceivedMs |-> 1]>>},
     gasPriceStore : {"gasPriceStore"}]

\* The URLs of one entry: each signed API URL with the address of each
\* beacon's Airnode appended, received now.
receivedUrls(item, now) ==
    LET urls == item.signedApiUrls
        beacons == item.decodedDataFeed.beacons
    IN  [k \in 1..(Len(urls) * Len(beacons)) |->
            [url |-> <<urls[((k - 1) \div Len(beacons)) + 1],
                       beacons[((k - 1) % Len(beacons)) + 1].airnodeAddress>>,
             lastReceivedMs |-> now]]

\* An upsert that replaces the feed's whole record.
upsertDapi_WipesRecord(dapis, item, chainId) ==
    [name \in DOMAIN dapis \cup {item.dapiName} |->
        IF name # item.dapiName THEN dapis[name]
        ELSE [dataFeed |-> item.decodedDataFeed,
              dataFeedValues |-> [c \in {chainId} |-> item.dataFeedValue],
              updateParameters |-> [c \in {chainId} |-> item.updateParameters]]]

\* The three merges of one entry: the feed's composition is replaced, its
\* value and its update parameters are set for the chain.
upsertDapi(dapis, item, chainId) ==
    LET cachedValues == IF item.dapiName \in DOMAIN dapis
                        THEN dapis[item.dapiName].dataFeedValues ELSE <<>>
        cachedParameters == IF item.dapiName \in DOMAIN dapis
                            THEN dapis[item.dapiName].updateParameters ELSE <<>>
    IN  [name \in DOMAIN dapis \cup {item.dapiName} |->
            IF name # item.dapiName THEN dapis[name]
            ELSE [dataFeed |-> item.decodedDataFeed,
                  dataFeedValues |->
                      [c \in DOMAIN cachedValues \cup {chainId} |->
                          IF c = chainId THEN item.dataFeedValue ELSE cachedValues[c]],
                  updateParameters |->
                      [c \in DOMAIN cachedParameters \cup {chainId} |->
                          IF c = chainId THEN item.updateParameters ELSE cachedParameters[c]]]]

\* updateDynamicState(batch, chainId) on a state, at time now.
RECURSIVE updateDynamicState(_, _, _, _)
updateDynamicState(state, batch, chainId, now) ==
    IF batch = <<>> THEN state
    ELSE updateDynamicState(
             [state EXCEPT
                 !.dapis = upsertDapi(state.dapis, Head(batch), chainId),
                 !.signedApiUrlStore =
                     mergeUrls(state.signedApiUrlStore, receivedUrls(Head(batch), now))],
             Tail(batch), chainId, now)

DynamicInit ==
    /\ dynamicState \in States
    /\ dynamicCall \in [status : {"none"},
                        batch : UNION {[1..n -> BatchItems] : n \in 0..MaxBatchItems},
                        chainId : StateChainIds,
                        now : 1..MaxReceivedMs]
    /\ mergeArgs = <<>>
    /\ mergedUrls = <<>>

CallUpdateDynamicState ==
    /\ dynamicCall.status = "none"
    /\ dynamicState' = updateDynamicState(dynamicState, dynamicCall.batch,
                                          dynamicCall.chainId, dynamicCall.now)
    /\ dynamicCall' = [status |-> "done", batch |-> dynamicCall.batch,
                       chainId |-> dynamicCall.chainId, now |-> dynamicCall.now,
                       before |-> dynamicState]
    /\ UNCHANGED <<mergeArgs, mergedUrls>>

InitDynamicState ==
    UpdIdle /\ DevIdle /\ MedIdle /\ DecIdle /\ LoopIdle /\ FeedIdle /\ FetchIdle /\ DynamicInit

NextDynamicState ==
    CallUpdateDynamicState /\ UNCHANGED <<updVars, devVars, medVars, decVars, loopVars, feedVars, fetchVars>>

SpecDynamicState == InitDynamicState /\ [][NextDynamicState]_vars

\* The names of the feeds of a batch.
BatchNames(batch) == {batch[i].dapiName : i \in DOMAIN batch}

\* The last entry a batch has for a feed.
LastItem(batch, name) ==
    batch[CHOOSE i \in DOMAIN batch :
            /\ batch[i].dapiName = name
            /\ \A j \in DOMAIN batch : batch[j].dapiName = name => j <= i]

\* The mapping after is the mapping before with the chain's entry set.
SetsOnly(before, after, chainId, value) ==
    /\ DOMAIN after = DOMAIN before \cup {chainId}
    /\ after[chainId] = value
    /\ \A c \in DOMAIN before \ {chainId} : after[c] = before[c]

\* C22: updateDynamicState(batch, chainId) leaves the configuration, the
\* data-point store and the gas-price store as they were and changes only the
\* feeds and the signed API URLs; a feed that is not in the batch is
\* unchanged, and of a feed in the batch only the composition, the value for
\* chainId and the update parameters for chainId are written: its values and
\* parameters for the other chains are unchanged.
C22_UpdateDynamicStateFrame ==
    dynamicCall.status = "done" =>
        LET before == dynamicCall.before
            after == dynamicState
            batch == dynamicCall.batch
            chainId == dynamicCall.chainId
        IN  /\ after.config = before.config
            /\ after.signedApiStore = before.signedApiStore
            /\ after.gasPriceStore = before.gasPriceStore
            /\ DOMAIN after.dapis = DOMAIN before.dapis \cup BatchNames(batch)
            /\ \A name \in DOMAIN before.dapis \ BatchNames(batch) :
                    after.dapis[name] = before.dapis[name]
            /\ \A name \in BatchNames(batch) :
                    LET item == LastItem(batch, name)
                        cached == IF name \in DOMAIN before.dapis THEN before.dapis[name]
                                  ELSE [dataFeedValues |-> <<>>, updateParameters |-> <<>>]
                    IN  /\ after.dapis[name].dataFeed = item.decodedDataFeed
                        /\ SetsOnly(cached.dataFeedValues, after.dapis[name].dataFeedValues,
                                    chainId, item.dataFeedValue)
                        /\ SetsOnly(cached.updateParameters, after.dapis[name].updateParameters,
                                    chainId, item.updateParameters)

\* A feed cached with a value for both chains is updated for one of them by a
\* batch that does not hold the other cached feed; the new feed's URLs are
\* merged in front of the one the state held.
C22_Witness ==
    /\ dynamicCall.status = "done"
    /\ dynamicCall.chainId = "37337"
    /\ BatchNames(dynamicCall.batch) = {"BTC/USD"}
    /\ DOMAIN dynamicCall.before.dapis = DapiNames
    /\ DOMAIN dynamicCall.before.dapis["BTC/USD"].dataFeedValues = StateChainIds
    /\ dynamicState.dapis["BTC/USD"].dataFeedValues =
            [c \in StateChainIds |-> IF c = "37337" THEN "value-1" ELSE "value-0"]
    /\ dynamicState.dapis["BTC/USD"].dataFeed.dataFeedId = "0x000"
    /\ dynamicCall.before.signedApiUrlStore = <<[url |-> <<"url-one">>, lastReceivedMs |-> 1]>>
    /\ dynamicState.signedApiUrlStore =
            <<[url |-> <<"https://one", "0x0A1">>, lastReceivedMs |-> 2],
              [url |-> <<"https://two", "0x0A1">>, lastReceivedMs |-> 2],
              [url |-> <<"url-one">>, lastReceivedMs |-> 1]>>

----------------------------------------------------------------------------
\* runUpdateFeed: the reads of the pages after the first.

\* C23: when totalCount / dataFeedBatchSize <= 1, totalCount = 0 and
\* 0 < totalCount < dataFeedBatchSize included, a cycle asks the registry for
\* no page after the first batch.
C23_NoPageReadAfterFirstBatch ==
    (FirstBatchSucceeded /\ cycle.totalCount <= updateFeedChain.dataFeedBatchSize) =>
        \A r \in BatchReads : cycle.reads[r].offset = 0

\* C24: every batch that was read, the first and the later ones, is handed to
\* processBatch once its own read is over: a batch whose read is fulfilled is
\* not kept waiting for the read of another batch to settle.
C24_BatchProcessedWhenRead ==
    /\ FirstBatchSucceeded => ProcessedTimes(0) >= 1
    /\ \A i \in DOMAIN cycle.batches :
            (cycle.batches[i].st = "fulfilled" /\ ProcessedTimes(cycle.batches[i].batchIndex) = 0)
                => \A j \in DOMAIN cycle.batches : cycle.batches[j].st \in {"fulfilled", "rejected"}

\* The later batches whose read has been issued.
Issued == {i \in DOMAIN cycle.batches : cycle.batches[i].st # "sleeping"}

\* The cycle staggers its reads: staggerTime = interval / batchesCount > 0.
Staggered == FirstBatchSucceeded /\ cycle.totalCount > updateFeedChain.dataFeedBatchSize

\* C25 as stated: with staggerTime > 0 the read of batch 1 is issued no
\* earlier than staggerTime after the start of the cycle, and the read of
\* batch k+1 no earlier than staggerTime after the read of batch k.
C25_ReadsAreStaggerTimeApart ==
    Staggered =>
        \A i \in Issued :
            /\ cycle.batches[i].batchIndex = 1 =>
                    cycle.batches[i].issuedAt * cycle.totalCount
                        >= updateFeedChain.dataFeedUpdateIntervalMs * updateFeedChain.dataFeedBatchSize
            /\ (i + 1 \in Issued /\ cycle.batches[i + 1].issuedAt < ElapsedCap) =>
                    (cycle.batches[i + 1].issuedAt - cycle.batches[i].issuedAt) * cycle.totalCount
                        >= updateFeedChain.dataFeedUpdateIntervalMs * updateFeedChain.dataFeedBatchSize

\* C25, amended: with staggerTime > 0 the read of batch k is issued no
\* earlier than k * staggerTime after the start of the cycle, and the later
\* batches are read in increasing index order: a batch is read only after
\* every batch of a lower index, and not before it.
C25_ReadsAreDelayedInIndexOrder ==
    Staggered =>
        \A i \in Issued :
            /\ cycle.batches[i].issuedAt * cycle.totalCount
                    >= cycle.batches[i].batchIndex
                           * updateFeedChain.dataFeedUpdateIntervalMs * updateFeedChain.dataFeedBatchSize
            /\ \A j \in 1..(i - 1) :
                    /\ j \in Issued
                    /\ cycle.batches[j].batchIndex < cycle.batches[i].batchIndex
                    /\ cycle.batches[j].issuedAt <= cycle.batches[i].issuedAt

\* Batches 1 and 2 have been read, batch 2 later than batch 1.
C25_Witness ==
    /\ Staggered
    /\ Issued = {1, 2}
    /\ cycle.batches[1].batchIndex = 1
    /\ cycle.batches[2].batchIndex = 2
    /\ cycle.batches[1].issuedAt >= 1
    /\ cycle.batches[2].issuedAt > cycle.batches[1].issuedAt
    /\ cycle.batches[2].issuedAt < ElapsedCap

\* C26: whatever time the read of the first batch takes, every read of a
\* later batch is issued before one update interval has passed since the
\* start of the cycle; so it is for a first batch that takes an interval or
\* more.
C26_ReadsIssuedWithinInterval ==
    (Staggered /\ cycle.firstBatchDuration >= updateFeedChain.dataFeedUpdateIntervalMs) =>
        \A i \in Issued : cycle.batches[i].issuedAt < updateFeedChain.dataFeedUpdateIntervalMs

----------------------------------------------------------------------------
\* startUpdateFeedLoops: the timers registered.

\* The registrations of a chain's provider.
TimersOf(c, providerName) ==
    {i \in DOMAIN intervals :
        intervals[i].chainId = ChainIds[c] /\ intervals[i].providerName = providerName}

\* C27: when startUpdateFeedLoops has completed, one repeating timer is
\* registered for every provider of every chain of the configuration, its
\* period is the update interval of the chain, and no timer is registered
\* for anything else.
C27_OneTimerPerChainProvider ==
    loopsPc = "done" =>
        /\ \A c \in ChainIndexes :
              \A k \in DOMAIN chains[c].providers :
                  /\ Cardinality(TimersOf(c, chains[c].providers[k])) = 1
                  /\ \A i \in TimersOf(c, chains[c].providers[k]) :
                        intervals[i].periodMs = chains[c].dataFeedUpdateIntervalMs
        /\ \A i \in DOMAIN intervals :
              \E c \in ChainIndexes :
                  \E k \in DOMAIN chains[c].providers : i \in TimersOf(c, chains[c].providers[k])

\* The call has completed for a chain of two providers and a chain of one,
\* with different intervals: three timers.
C27_Witness ==
    /\ loopsPc = "done"
    /\ size(chains[1].providers) = 2
    /\ size(chains[2].providers) = 1
    /\ chains[1].dataFeedUpdateIntervalMs = 2
    /\ chains[2].dataFeedUpdateIntervalMs = 3
    /\ Len(intervals) = 3

\* The number of chains that have a provider.
Started == Cardinality({c \in ChainIndexes : size(chains[c].providers) > 0})

\* C28: the loops of the chains start in parallel: once the call has
\* started, the timer of the first provider of every chain is registered,
\* all of them at the time of the call and before the timer of any second
\* provider, so no chain waits for the stagger of another.
C28_ChainsStartInParallel ==
    loopsPc # "idle" =>
        /\ Len(intervals) >= Started
        /\ \A c \in ChainIndexes :
              size(chains[c].providers) > 0 =>
                  \E i \in 1..Started :
                      /\ i \in TimersOf(c, chains[c].providers[1])
                      /\ intervals[i].at = intervals[1].at
        /\ \A i \in DOMAIN intervals : intervals[i].at >= intervals[1].at

\* Two chains of two providers: the first timer of each is registered and
\* both chains are in their first stagger sleep.
C28_Witness ==
    /\ loopsPc = "awaiting"
    /\ \A c \in ChainIndexes : size(chains[c].providers) = 2 /\ chainTask[c].pc = "sleeping"
    /\ chains[1].dataFeedUpdateIntervalMs # chains[2].dataFeedUpdateIntervalMs
    /\ Len(intervals) = 2
    /\ intervals[1].chainId # intervals[2].chainId
    /\ intervals[1].at = intervals[2].at

----------------------------------------------------------------------------
\* runDataFetcher: the HTTP calls of a tick and the ticks of the timer.

\* The tasks of the followed tick that call a URL.
TasksOf(url) == {i \in DOMAIN fetchTick.tasks : fetchTick.tasks[i].url = url}

\* C29: in one tick of runDataFetcher every distinct URL of the URL
\* collection gets exactly one HTTP GET, however many times it is recorded
\* and whether its call succeeds, fails or times out (nothing is retried),
\* and no other URL gets one.
C29_OneGetPerDistinctUrl ==
    fetchTick.pc # "none" =>
        /\ \A k \in DOMAIN fetcherState.signedApiUrlStore :
                /\ Cardinality(TasksOf(fetcherState.signedApiUrlStore[k])) = 1
                /\ \A i \in TasksOf(fetcherState.signedApiUrlStore[k]) :
                        fetchTick.tasks[i].gets = 1
        /\ \A i \in DOMAIN fetchTick.tasks :
                \E k \in DOMAIN fetcherState.signedApiUrlStore :
                    fetcherState.signedApiUrlStore[k] = fetchTick.tasks[i].url

\* A tick over a collection that records a URL twice has returned: the call
\* of one URL failed and the task of the other timed out.
C29_Witness ==
    /\ fetchTick.pc = "returned"
    /\ Len(fetcherState.signedApiUrlStore) = 3
    /\ Len(fetchTick.tasks) = 2
    /\ fetchTick.tasks[1].outer = "failed"
    /\ fetchTick.tasks[1].response.kind = "httpFailed"
    /\ fetchTick.tasks[2].outer = "timedOut"

\* The timer's callback runs: a tick of runDataFetcher starts.
FetcherTimerTick ==
    /\ \E followed \in BOOLEAN : RunDataFetcher("timer", followed)
    /\ UNCHANGED <<updVars, devVars, medVars, decVars, loopVars, feedVars, utilVars>>

\* C30: for as long as the timer of the fetcher is registered and not
\* cleared, the tick of the next interval can start, whether the HTTP calls
\* of earlier ticks have settled or not: ticks may overlap.
C30_TicksDoNotWaitForEarlierTicks ==
    (/\ \E h \in DOMAIN fetcherTimers : ~fetcherTimers[h].cleared
     /\ fetcherCalls.direct + fetcherCalls.timer < MaxFetchTicks)
        => ENABLED FetcherTimerTick

\* The first call, a direct one, still waits for all its HTTP calls when the
\* timer it registered has started the next tick.
C30_Witness ==
    /\ fetchTick.origin = "direct"
    /\ fetchTick.pc = "fetching"
    /\ Len(fetchTick.tasks) = 2
    /\ InFlight = DOMAIN fetchTick.tasks
    /\ \A i \in DOMAIN fetchTick.tasks : fetchTick.tasks[i].outer = "pending"
    /\ fetcherCalls = [direct |-> 1, timer |-> 1]

----------------------------------------------------------------------------
\* runUpdateFeed: the cycles of one provider.

\* The timer's callback runs, and nothing else happens.
FeedTimerTickStep ==
    FeedTimerTick /\ UNCHANGED <<updVars, devVars, medVars, decVars, loopVars, fetchVars, utilVars>>

\* The followed cycle is fetching or processing batches.
CycleInFlight == cycle.pc \notin {"idle", "returned", "thrown"}

----------------------------------------------------------------------------
\* stopDataFetcher: the calls after a stop.

\* C32: stopDataFetcher cancels the timer and leaves its handle in state, so
\* once a stop has cancelled the timer no call of runDataFetcher registers a
\* timer again: a direct call runs one tick, the timer starts none, and every
\* timer stays cancelled.
C32_NoPollingAfterStop ==
    /\ [](StoppedTimer =>
            /\ fetcherState.dataFetcherInterval = fetcherStopped.handle
            /\ \A h \in DOMAIN fetcherTimers : fetcherTimers[h].cleared)
    /\ [][StoppedTimer =>
            /\ fetcherTimers' = fetcherTimers
            /\ fetcherCalls'.timer = fetcherCalls.timer
            /\ fetcherCalls'.direct \in {fetcherCalls.direct, fetcherCalls.direct + 1}]_vars

\* The timer registered by the first call was stopped while no call was in
\* flight; the direct call made after the stop is fetching.
C32_Witness ==
    /\ StoppedTimer
    /\ fetcherStopped.pending = {}
    /\ fetcherCalls = [direct |-> 2, timer |-> 0]
    /\ fetchTick.origin = "direct"
    /\ fetchTick.pc = "fetching"
    /\ InFlight = DOMAIN fetchTick.tasks
    /\ InFlight # {}
    /\ Len(fetcherTimers) = 1
    /\ fetcherTimers[1].cleared

----------------------------------------------------------------------------
\* isDataFeedUpdatable: the decision as time passes.

\* The times of the clock from now on.
LaterTimes ==
    {dateNow + k * TickMs : k \in 0..(((MaxTs * 1000 + TickMs) - dateNow) \div TickMs)}

\* The decision on the arguments at time nowMs.
UpdatableAt(nowMs) ==
    isDataFeedUpdatable(args.onChainValue, args.onChainTimestamp,
        args.offChainValue, args.offChainTimestamp,
        args.heartbeatInterval, args.deviationThreshold,
        args.deviationReference, nowMs).ret

\* C33: with heartbeatInterval > 0 and the other inputs fixed, a call that
\* returns true at the current time returns true at every later time.
C33_UpdatableStaysUpdatable ==
    (Returned /\ args.heartbeatInterval > 0 /\ updatable.ret = TRUE) =>
        \A later \in LaterTimes : UpdatableAt(later) = TRUE

\* The call returned true for a deviation on fresh on-chain data, and at a
\* later time of the clock the data is older than the heartbeat.
C33_Witness ==
    /\ Returned
    /\ updatable.ret = TRUE
    /\ args.heartbeatInterval > 0
    /\ NewerThanInitialized
    /\ FreshOnChain
    /\ \E later \in LaterTimes :
          ~isOnChainDataFresh(args.onChainTimestamp, args.heartbeatInterval, later)

====
